---- MODULE Spec2Model ----
(***************************************************************************)
(* A model of the voicetyped core: the webhook circuit breaker, the SFU    *)
(* room / publisher track / subscription lifecycle, and the dialog         *)
(* handler's session store and per-session loop.  Each subsystem has its   *)
(* own specification (SpecBreaker, SpecSFU, SpecDialog); the variables of  *)
(* the other subsystems stay at their initial values.                      *)
(***************************************************************************)
EXTENDS Integers, Sequences, FiniteSets, TLC

VARIABLES
    \* ---- webhook circuit breaker (pkg/webhook/circuit_breaker.go)
    cfg,        \* CircuitBreaker.config after NewCircuitBreaker
    cb,         \* CircuitBreaker fields: state, failures, successes, lastFailureTime
    now,        \* the wall clock read by time.Now / time.Since
    cbOp,       \* the last breaker method called
    cbRet,      \* what the last AllowRequest returned
    cbPrev,     \* the breaker's fields when the last method was entered
    cbAt,       \* the clock when the last method was entered
    consec,     \* history: failures recorded since the last recorded success
    openedAt,   \* history: the time of the last move into the open state
    \* ---- SFU room (internal/media/sfu)
    room,       \* Room fields: maxPeers, closed, autoSubscribeAudio, e2eeRequired,
                \* peers (peer id -> Peer), publisherTracks (track id -> PublisherTrack)
    peers,      \* the Peer objects created so far: id, closed, downTracks
    tracks,     \* the PublisherTrack objects created so far
    subs,       \* the Subscription objects created so far
    subCall,    \* a Room.Subscribe call in flight (its position and locals)
    closing,    \* peers that RemovePeer / Room.Close unlinked and will Close
    sfuOp,      \* the last room operation or forwarder write, and its outcome
    \* ---- dialog service handler (internal/dialog/handler)
    store,      \* SessionStore.sessions: session id -> activeSession
    sess,       \* the activeSession objects created so far, with their loops
    calls,      \* the SendEvent calls in flight (position and locals)
    ending,     \* sessions an EndDialog call removed and still has to close
    dlgOp,      \* the last handler call that returned, and its outcome
    \* ---- webhook deliverer (pkg/webhook)
    dconf,      \* Deliverer.config, whether it has a pool, whether the URL is valid
    script,     \* how the endpoint answers the requests it receives
    breakers,   \* Deliverer.breakers[wh.ID]
    clock,      \* the wall clock of the deliverer
    ctxDone,    \* the context passed to Deliver is cancelled
    requests,   \* requests the endpoint has received for the current event
    delivery,   \* the current delivery: event, last attempt, position, retry time
    deliveryAttempts,   \* the delivery_attempts table
    deadLetters,        \* the dead_letters table
    whOp,       \* the outcome of the last deliverWithRetry
    \* ---- SFU forwarders (internal/media/sfu)
    ftrack,     \* the PublisherTrack: simulcast, svc, codec, its layers
    fsub,       \* the Subscription's settings and its context
    fwd,        \* the forwarder task: its position and locals
    fwOp,       \* the last step of the forwarder or call on the subscription
    \* ---- dialog session and engine (pkg/dialog)
    session,    \* the Session: current state, history, last event, history cap
    sessOp,     \* the last call on the session, and how many were made
    eng,        \* Engine.RunDialog: its position, locals, channels and context
    engOp,      \* the last step of RunDialog or of its caller
    \* ---- dialog definitions: transition evaluation and the loader (pkg/dialog)
    evalArgs,   \* the arguments of an EvaluateTransitions call
    files,      \* the dialog directory: file name -> what the file holds
    dialogs,    \* Loader.dialogs: dialog name -> the dialog served
    fsmOp,      \* the last EvaluateTransitions or Loader call, and its outcome
    \* ---- event publisher and dead-letter replay (pkg/events, pkg/webhook/api, internal/integration)
    subscribers,    \* Publisher.subscribers: subscriber id -> its channel
    emit,       \* the Publisher.Emit call in flight: position, envelope, subscribers left
    published,  \* the envelopes handed to the queue manager
    letters,    \* the dead_letters table: id -> row
    replay,     \* the ReplayDeadLetter request in flight
    evOp,       \* the last Emit or ReplayDeadLetter that returned, and its outcome
    \* ---- orchestration pipeline (internal/runtime)
    orch,       \* HandleNewRoom: its arguments, position, deferred calls and exit path
    pipeCtx,    \* pipeCtx of the run: none, live or cancelled
    pipe,       \* the audio pipe task: its position and the frames it forwarded
    dialogRPCs, \* the StartDialog and EndDialog requests the run made, in order
    \* ---- deliveries sharing an endpoint's breaker (pkg/webhook)
    inflight,   \* requests the breaker admitted whose outcome is not yet recorded
    \* ---- one layered track read by its layer readers and several forwarders (internal/media/sfu)
    fanTrack,   \* the PublisherTrack: simulcast or svc, and its layers
    fanQueue,   \* layer -> the packets that arrived on its TrackRemote and are not yet read
    fanSubs,    \* subscription -> paused, currentQuality, maxSpatialLayer, packets written
    fanOp,      \* the last Read of a layer: who read, the packet, who was due to get it
    \* ---- JoinRoom calls and the contexts of the peers and tracks they create (internal/media/handler, internal/media/sfu)
    joinCalls,  \* call -> where the JoinRoom handler stands, whether its request context is done, the peer it created
    joinPeers,  \* the peers created, in order: creating call, cancel called, still in r.peers
    joinTracks, \* the publisher tracks registered, in order: publisher, cancel called, layer reader, packets read
    joinClosed, \* r.closed of the room the calls join
    \* ---- goroutines running SFU, Room, PublisherTrack and Peer operations and the mutexes they hold (internal/media/sfu)
    lockThreads, \* goroutine -> the operation it runs, its next lock instruction, the mutexes it holds
    lockOp      \* the last acquisition: the mutex taken and the mutexes its goroutine held

cbVars == <<cfg, cb, now, cbOp, cbRet, cbPrev, cbAt, consec, openedAt>>

sfuVars == <<room, peers, tracks, subs, subCall, closing, sfuOp>>

dlgVars == <<store, sess, calls, ending, dlgOp>>

whVars == <<dconf, script, breakers, clock, ctxDone, requests, delivery,
           deliveryAttempts, deadLetters, whOp>>

fwVars == <<ftrack, fsub, fwd, fwOp>>

engVars == <<session, sessOp, eng, engOp>>

fsmVars == <<evalArgs, files, dialogs, fsmOp>>

evVars == <<subscribers, emit, published, letters, replay, evOp>>

orchVars == <<orch, pipeCtx, pipe, dialogRPCs>>

reqVars == <<inflight>>

fanVars == <<fanTrack, fanQueue, fanSubs, fanOp>>

joinVars == <<joinCalls, joinPeers, joinTracks, joinClosed>>

lockVars == <<lockThreads, lockOp>>

vars == <<cbVars, sfuVars, dlgVars, whVars, fwVars, engVars, fsmVars, evVars, orchVars, reqVars, fanVars, joinVars, lockVars>>

\* What each subsystem's actions leave alone.
notBreaker == <<sfuVars, dlgVars, whVars, fwVars, engVars, fsmVars, evVars, orchVars, reqVars, fanVars, joinVars, lockVars>>
notSFU == <<cbVars, dlgVars, whVars, fwVars, engVars, fsmVars, evVars, orchVars, reqVars, fanVars, joinVars, lockVars>>
notDialog == <<cbVars, sfuVars, whVars, fwVars, engVars, fsmVars, evVars, orchVars, reqVars, fanVars, joinVars, lockVars>>
notDeliver == <<cbVars, sfuVars, dlgVars, fwVars, engVars, fsmVars, evVars, orchVars, reqVars, fanVars, joinVars, lockVars>>
notForward == <<cbVars, sfuVars, dlgVars, whVars, engVars, fsmVars, evVars, orchVars, reqVars, fanVars, joinVars, lockVars>>
notEngine == <<cbVars, sfuVars, dlgVars, whVars, fwVars, fsmVars, evVars, orchVars, reqVars, fanVars, joinVars, lockVars>>
notFSM == <<cbVars, sfuVars, dlgVars, whVars, fwVars, engVars, evVars, orchVars, reqVars, fanVars, joinVars, lockVars>>
notEvents == <<cbVars, sfuVars, dlgVars, whVars, fwVars, engVars, fsmVars, orchVars, reqVars, fanVars, joinVars, lockVars>>
notOrch == <<cbVars, sfuVars, dlgVars, whVars, fwVars, engVars, fsmVars, evVars, reqVars, fanVars, joinVars, lockVars>>
notRequests == <<cbVars, sfuVars, dlgVars, whVars, fwVars, engVars, fsmVars, evVars, orchVars, fanVars, joinVars, lockVars>>
notShared == <<sfuVars, dlgVars, whVars, fwVars, engVars, fsmVars, evVars, orchVars, fanVars, joinVars, lockVars>>
notFan == <<cbVars, sfuVars, dlgVars, whVars, fwVars, engVars, fsmVars, evVars, orchVars, reqVars, joinVars, lockVars>>
notJoin == <<cbVars, sfuVars, dlgVars, whVars, fwVars, engVars, fsmVars, evVars, orchVars, reqVars, fanVars, lockVars>>
notLocks == <<cbVars, sfuVars, dlgVars, whVars, fwVars, engVars, fsmVars, evVars, orchVars, reqVars, fanVars, joinVars>>

(***************************************************************************)
(* Bounds of the model.                                                    *)
(***************************************************************************)
\* Circuit breaker: largest FailureThreshold and ResetTimeout configured, the
\* last clock value, and the most failures counted.
MaxThreshold == 3
MaxTimeout == 2
MaxTime == 5
MaxFailures == 4
\* SFU room: largest maxPeers configured, and how many Peer, PublisherTrack
\* and Subscription objects are created in one behaviour.
MaxPeersCap == 2
MaxPeerObjs == 2
MaxTrackObjs == 1
MaxSubObjs == 2
\* Dialog handler: how many sessions are started and how many SendEvent calls
\* are in flight at once (among several sessions, and on a single session),
\* and the capacities of a session's speech, dtmf and
\* result channels (8, 16 and 8 in StartDialog, scaled down so that full
\* channels are reached).
MaxSessionObjs == 2
MaxCalls == 1
MaxConcurrentCalls == 2
SpeechChCap == 1
DtmfChCap == 1
ResultChCap == 2
\* Webhook deliverer: largest max-retries configured, how many events are
\* delivered in one behaviour, and the last clock value.
MaxRetriesCap == 3
MaxDeliveries == 2
MaxClock == 4
\* SVC forwarder: the largest spatial / temporal layer id of a packet or limit.
MaxLayerId == 2
\* Dialog session: how far from empty and from the cap a history starts, and
\* how many transitions are then recorded.
HistSlack == 3
MaxRecords == 2

\* Dialog definitions: the most transitions declared on a state.
MaxTransitions == 2
\* Dialog loader: the most dialog files of the directory, and how many times
\* a file is written after the loader started.
MaxFiles == 2
MaxWrites == 1
\* Event publisher: the largest buffer a subscriber asks for, and how many
\* times Emit is called.
MaxBufSize == 1
MaxEmits == 2
MaxResults == 2
MaxFrames == 1
MaxInflight == 2
MaxFanPackets == 2
\* JoinRoom calls made, tracks registered by their peers, packets a layer
\* reader reads.
MaxJoins == 2
MaxJoinTracks == 2
MaxJoinPackets == 1
\* Goroutines running SFU operations at the same time.
MaxGoroutines == 2

(***************************************************************************)
(* Webhook circuit breaker.                                                *)
(***************************************************************************)
StateClosed == "closed"
StateOpen == "open"
StateHalfOpen == "half_open"

\* NewCircuitBreaker: HalfOpenMaxAttempts <= 0 is clamped to 1; the breaker
\* starts closed with zero counters.
NewCircuitBreakerConfig(threshold, timeout, halfOpenMax) ==
    [FailureThreshold |-> threshold,
     ResetTimeout |-> timeout,
     HalfOpenMaxAttempts |-> IF halfOpenMax <= 0 THEN 1 ELSE halfOpenMax]

NewCircuitBreaker ==
    [state |-> StateClosed, failures |-> 0, successes |-> 0, lastFailureTime |-> 0]

\* time.Since(cb.lastFailureTime) > cb.config.ResetTimeout
ResetElapsedOff(b, c, t) == t - b.lastFailureTime >= c.ResetTimeout
ResetElapsed(b, c, t) == t - b.lastFailureTime > c.ResetTimeout

\* AllowRequest: the value returned.
AllowRequestResult(b, c, t) ==
    CASE b.state = StateClosed -> TRUE
      [] b.state = StateOpen -> ResetElapsed(b, c, t)
      [] b.state = StateHalfOpen -> TRUE
      [] OTHER -> TRUE

\* AllowRequest: the breaker afterwards.
AllowRequestState(b, c, t) ==
    IF b.state = StateOpen /\ ResetElapsed(b, c, t)
    THEN [b EXCEPT !.state = StateHalfOpen, !.successes = 0]
    ELSE b

\* RecordSuccess: the breaker afterwards.
RecordSuccessKeepsCount(b, c) ==
    IF b.state = StateHalfOpen
    THEN LET s == b.successes + 1 IN
         [b EXCEPT !.successes = s,
                   !.state = IF s >= c.HalfOpenMaxAttempts THEN StateClosed ELSE @]
    ELSE [b EXCEPT !.state = StateClosed]
RecordSuccessState(b, c) ==
    LET b0 == [b EXCEPT !.failures = 0] IN
    IF b0.state = StateHalfOpen
    THEN LET s == b0.successes + 1 IN
         [b0 EXCEPT !.successes = s,
                    !.state = IF s >= c.HalfOpenMaxAttempts THEN StateClosed ELSE @]
    ELSE [b0 EXCEPT !.state = StateClosed]

\* RecordFailure: the breaker afterwards.
RecordFailureStrict(b, c, t) ==
    LET b0 == [b EXCEPT !.failures = @ + 1, !.lastFailureTime = t] IN
    IF b0.state = StateHalfOpen
    THEN [b0 EXCEPT !.state = StateOpen]
    ELSE IF b0.failures > c.FailureThreshold
         THEN [b0 EXCEPT !.state = StateOpen]
         ELSE b0
RecordFailureState(b, c, t) ==
    LET b0 == [b EXCEPT !.failures = @ + 1, !.lastFailureTime = t] IN
    IF b0.state = StateHalfOpen
    THEN [b0 EXCEPT !.state = StateOpen]
    ELSE IF b0.failures >= c.FailureThreshold
         THEN [b0 EXCEPT !.state = StateOpen]
         ELSE b0

\* A breaker as NewCircuitBreaker returns it, for the configuration given.
BreakerInit(thresholds, timeouts, halfOpenMaxes) ==
    /\ \E n \in thresholds, r \in timeouts, h \in halfOpenMaxes :
          cfg = NewCircuitBreakerConfig(n, r, h)
    /\ cb = NewCircuitBreaker
    /\ now = 0
    /\ cbOp = "none"
    /\ cbRet = TRUE
    /\ cbPrev = NewCircuitBreaker
    /\ cbAt = 0
    /\ consec = 0
    /\ openedAt = 0

AllowRequest ==
    /\ cbPrev' = cb
    /\ cbAt' = now
    /\ cbOp' = "AllowRequest"
    /\ cbRet' = AllowRequestResult(cb, cfg, now)
    /\ cb' = AllowRequestState(cb, cfg, now)
    /\ UNCHANGED <<cfg, now, consec, openedAt>>
    /\ UNCHANGED notBreaker

RecordSuccess ==
    /\ cbPrev' = cb
    /\ cbAt' = now
    /\ cbOp' = "RecordSuccess"
    /\ cb' = RecordSuccessState(cb, cfg)
    /\ consec' = 0
    /\ UNCHANGED <<cfg, now, cbRet, openedAt>>
    /\ UNCHANGED notBreaker

RecordFailure ==
    /\ cb.failures < MaxFailures
    /\ cbPrev' = cb
    /\ cbAt' = now
    /\ cbOp' = "RecordFailure"
    /\ cb' = RecordFailureState(cb, cfg, now)
    /\ consec' = consec + 1
    /\ openedAt' = IF cb.state # StateOpen /\ cb'.state = StateOpen THEN now ELSE openedAt
    /\ UNCHANGED <<cfg, now, cbRet>>
    /\ UNCHANGED notBreaker

\* The clock advances between calls.
Tick ==
    /\ now < MaxTime
    /\ now' = now + 1
    /\ UNCHANGED <<cfg, cb, cbOp, cbRet, cbPrev, cbAt, consec, openedAt>>
    /\ UNCHANGED notBreaker

NextBreaker ==
    \/ AllowRequest
    \/ RecordSuccess
    \/ RecordFailure
    \/ Tick

\* Deliveries to one endpoint run as separate tasks and share the endpoint's
\* breaker (Subscriber.Handle starts one Deliver per event, getOrCreateBreaker
\* returns the same breaker for the same webhook id).  Each deliverWithRetry
\* calls AllowRequest, sends its request when admitted, and records the
\* outcome when the response arrives; inflight counts the requests between
\* the two calls.
RequestsIdle == inflight = 0

\* deliverWithRetry: cb.AllowRequest(); an admitted request is sent.
RequestAdmit ==
    /\ inflight < MaxInflight
    /\ cbPrev' = cb
    /\ cbAt' = now
    /\ cbOp' = "AllowRequest"
    /\ cbRet' = AllowRequestResult(cb, cfg, now)
    /\ cb' = AllowRequestState(cb, cfg, now)
    /\ inflight' = IF cbRet' THEN inflight + 1 ELSE inflight
    /\ UNCHANGED <<cfg, now, consec, openedAt>>
    /\ UNCHANGED notShared

\* deliverWithRetry: a 2xx response arrived, cb.RecordSuccess().
RequestSucceeds ==
    /\ inflight > 0
    /\ cbPrev' = cb
    /\ cbAt' = now
    /\ cbOp' = "RecordSuccess"
    /\ cb' = RecordSuccessState(cb, cfg)
    /\ consec' = 0
    /\ inflight' = inflight - 1
    /\ UNCHANGED <<cfg, now, cbRet, openedAt>>
    /\ UNCHANGED notShared

\* deliverWithRetry: the request failed, cb.RecordFailure().
RequestFails ==
    /\ inflight > 0
    /\ cb.failures < MaxFailures
    /\ cbPrev' = cb
    /\ cbAt' = now
    /\ cbOp' = "RecordFailure"
    /\ cb' = RecordFailureState(cb, cfg, now)
    /\ consec' = consec + 1
    /\ openedAt' = IF cb.state # StateOpen /\ cb'.state = StateOpen THEN now ELSE openedAt
    /\ inflight' = inflight - 1
    /\ UNCHANGED <<cfg, now, cbRet>>
    /\ UNCHANGED notShared

NextShared ==
    \/ RequestAdmit
    \/ RequestSucceeds
    \/ RequestFails
    \/ Tick

(***************************************************************************)
(* Webhook deliverer (pkg/webhook): one endpoint, its circuit breaker, the *)
(* delivery attempts and dead letters the repository holds.                *)
(***************************************************************************)

\* How the endpoint answers the k-th request it receives for one event.
Scripts == {"always 500", "500 500 200", "always 200", "unreachable"}

\* The answer of the endpoint: a transport error, or a status code.
Respond(s, k) ==
    CASE s = "always 500" -> [err |-> FALSE, code |-> 500]
      [] s = "500 500 200" -> [err |-> FALSE, code |-> IF k <= 2 THEN 500 ELSE 200]
      [] s = "always 200" -> [err |-> FALSE, code |-> 200]
      [] OTHER -> [err |-> TRUE, code |-> 0]

\* DelivererConfig as NewDeliverer receives it, whether a worker pool was
\* given, and whether the endpoint's URL passes ValidateWebhookURL.
DelivererConfigs ==
    [MaxRetries : 1..MaxRetriesCap,
     BackoffInitialSec : {1},
     BackoffMaxSec : {2},
     CBFailThreshold : {1, MaxRetriesCap},
     CBResetTimeoutSec : {1, MaxClock},
     pool : BOOLEAN,
     urlValid : BOOLEAN]

\* events.Envelope of the n-th event delivered.
Envelope(n) ==
    [ID |-> n, Type |-> "webhook.test", SessionID |-> "s1", Data |-> n]

\* json.Marshal of an envelope: the JSON object with the struct's field tags.
Marshal(env) ==
    <<"json", [id |-> env.ID, type |-> env.Type, session_id |-> env.SessionID,
               data |-> env.Data]>>

\* getOrCreateBreaker: the configuration of the endpoint's breaker.
getOrCreateBreakerConfig(c) ==
    NewCircuitBreakerConfig(c.CBFailThreshold, c.CBResetTimeoutSec, 1)

\* A missing entry of Deliverer.breakers.
NoBreaker ==
    [state |-> "absent", failures |-> 0, successes |-> 0, lastFailureTime |-> 0]

\* getOrCreateBreaker: the endpoint's breaker, created closed on first use.
getOrCreateBreaker(b) == IF b = NoBreaker THEN NewCircuitBreaker ELSE b

\* handleFailure: attempt >= d.config.MaxRetries, the retries are exhausted.
RetriesExhaustedLate(c, attempt) == attempt > c.MaxRetries
RetriesExhausted(c, attempt) == attempt >= c.MaxRetries

\* 1 << n
RECURSIVE Shl1(_)
Shl1(n) == IF n <= 0 THEN 1 ELSE 2 * Shl1(n - 1)

\* handleFailure: backoff = min(initial << (attempt-1), max) seconds.
Backoff(c, attempt) ==
    LET b == c.BackoffInitialSec * Shl1(attempt - 1)
    IN IF b > c.BackoffMaxSec THEN c.BackoffMaxSec ELSE b

\* resp.StatusCode >= 200 && resp.StatusCode < 300
IsSuccess(code) == code >= 200 /\ code < 300

\* The DeliveryAttempt row of an attempt.
DeliveryAttemptRow(env, attempt, status, code) ==
    [EventID |-> env.ID, AttemptNumber |-> attempt, Status |-> status,
     ResponseCode |-> code]

\* The error message handleFailure receives: "circuit open", err.Error(), or
\* fmt.Sprintf("HTTP %d", resp.StatusCode).
ErrMsg(text, code) == [text |-> text, code |-> code]

\* The DeadLetter row handleFailure builds.
DeadLetterRow(env, attempt, errMsg) ==
    [EventID |-> env.ID, Payload |-> Marshal(env), LastError |-> errMsg,
     Attempts |-> attempt, Replayable |-> TRUE]

NoDelivery == [pc |-> "none", event |-> 0, attempt |-> 0, wake |-> 0]

\* NewDeliverer: no breaker yet, nothing delivered, empty tables.
DeliverInit(configs, scripts) ==
    /\ dconf \in configs
    /\ script \in scripts
    /\ breakers = NoBreaker
    /\ clock = 0
    /\ ctxDone = FALSE
    /\ requests = 0
    /\ delivery = NoDelivery
    /\ deliveryAttempts = <<>>
    /\ deadLetters = <<>>
    /\ whOp = [op |-> "none"]

\* The deliverer at rest with one fixed configuration.
DeliverIdle ==
    DeliverInit({[MaxRetries |-> 1, BackoffInitialSec |-> 1, BackoffMaxSec |-> 2,
                  CBFailThreshold |-> 1, CBResetTimeoutSec |-> 1,
                  pool |-> FALSE, urlValid |-> TRUE]}, {"always 200"})

\* Repository.RecordDelivery / CreateDeadLetter: the row is stored unless the
\* context the query runs under is cancelled.
Create(table, row) == IF ctxDone THEN table ELSE Append(table, row)

\* handleFailure(attempt, errMsg) for a failure of the given cause: a dead
\* letter when the retries are exhausted; otherwise a retry is scheduled
\* after the backoff, through the pool (which may refuse it) or by a timer.
handleFailure(env, attempt, cause, errMsg, accept) ==
    IF RetriesExhausted(dconf, attempt)
    THEN /\ deadLetters' = Create(deadLetters, DeadLetterRow(env, attempt, errMsg))
         /\ delivery' = [pc |-> "dead", event |-> env.ID, attempt |-> attempt,
                         wake |-> 0]
         /\ whOp' = [op |-> "dead-letter", cause |-> cause, attempt |-> attempt]
    ELSE /\ UNCHANGED deadLetters
         /\ IF dconf.pool /\ ~accept
            THEN /\ delivery' = [pc |-> "dropped", event |-> env.ID,
                                 attempt |-> attempt, wake |-> 0]
                 /\ whOp' = [op |-> "dropped", cause |-> cause, attempt |-> attempt]
            ELSE /\ delivery' = [pc |-> "backoff", event |-> env.ID,
                                 attempt |-> attempt,
                                 wake |-> clock + Backoff(dconf, attempt)]
                 /\ whOp' = [op |-> "retry", cause |-> cause, attempt |-> attempt]

\* deliverWithRetry(env, attempt): validate the URL, consult the breaker, POST
\* the envelope, record the attempt and the breaker outcome, and on failure
\* handleFailure.  A request under a cancelled context fails in transport
\* without reaching the endpoint; sent is the number of requests the endpoint
\* has received for this event.
deliverWithRetry(env, attempt, sent, accept) ==
    LET c == getOrCreateBreakerConfig(dconf)
        b == getOrCreateBreaker(breakers)
        allowed == AllowRequestResult(b, c, clock)
        b1 == AllowRequestState(b, c, clock)
        resp == IF ctxDone THEN [err |-> TRUE, code |-> 0]
                ELSE Respond(script, sent + 1)
    IN IF ~dconf.urlValid
       THEN /\ delivery' = [pc |-> "aborted", event |-> env.ID,
                            attempt |-> attempt, wake |-> 0]
            /\ whOp' = [op |-> "aborted", cause |-> "url", attempt |-> attempt]
            /\ requests' = sent
            /\ UNCHANGED <<breakers, deliveryAttempts, deadLetters>>
       ELSE IF ~allowed
       THEN /\ breakers' = b1
            /\ requests' = sent
            /\ UNCHANGED deliveryAttempts
            /\ handleFailure(env, attempt, "circuit open", ErrMsg("circuit open", 0), accept)
       ELSE IF resp.err
       THEN /\ breakers' = RecordFailureState(b1, c, clock)
            /\ requests' = IF ctxDone THEN sent ELSE sent + 1
            /\ deliveryAttempts' = Create(deliveryAttempts,
                  DeliveryAttemptRow(env, attempt, "failed", 0))
            /\ handleFailure(env, attempt, "transport", ErrMsg("transport", 0), accept)
       ELSE IF IsSuccess(resp.code)
       THEN /\ breakers' = RecordSuccessState(b1, c)
            /\ requests' = sent + 1
            /\ deliveryAttempts' = Create(deliveryAttempts,
                  DeliveryAttemptRow(env, attempt, "success", resp.code))
            /\ delivery' = [pc |-> "delivered", event |-> env.ID,
                            attempt |-> attempt, wake |-> 0]
            /\ whOp' = [op |-> "success", cause |-> "", attempt |-> attempt]
            /\ UNCHANGED deadLetters
       ELSE /\ breakers' = RecordFailureState(b1, c, clock)
            /\ requests' = sent + 1
            /\ deliveryAttempts' = Create(deliveryAttempts,
                  DeliveryAttemptRow(env, attempt, "failed", resp.code))
            /\ handleFailure(env, attempt, "http", ErrMsg("HTTP", resp.code), accept)

\* Deliver: the first attempt for the next event, once the previous delivery
\* has come to rest.
Deliver(accept) ==
    /\ delivery.pc \notin {"backoff"}
    /\ delivery.event < MaxDeliveries
    /\ deliverWithRetry(Envelope(delivery.event + 1), 1, 0, accept)
    /\ UNCHANGED <<dconf, script, clock, ctxDone>>
    /\ UNCHANGED notDeliver

\* The retry handleFailure scheduled: once the backoff has passed, the next
\* attempt is made (in the pool task, select takes either ready case).
Retry(accept) ==
    /\ delivery.pc = "backoff"
    /\ clock >= delivery.wake
    /\ deliverWithRetry(Envelope(delivery.event), delivery.attempt + 1, requests, accept)
    /\ UNCHANGED <<dconf, script, clock, ctxDone>>
    /\ UNCHANGED notDeliver

\* The retry task in the pool, case <-ctx.Done(): it returns without a further
\* attempt.
RetryCancelled ==
    /\ delivery.pc = "backoff"
    /\ dconf.pool
    /\ ctxDone
    /\ delivery' = [delivery EXCEPT !.pc = "cancelled"]
    /\ whOp' = [op |-> "cancelled", cause |-> "ctx", attempt |-> delivery.attempt]
    /\ UNCHANGED <<dconf, script, breakers, clock, ctxDone, requests,
                   deliveryAttempts, deadLetters>>
    /\ UNCHANGED notDeliver

\* The context the delivery runs under is cancelled.
CancelCtx ==
    /\ ~ctxDone
    /\ ctxDone' = TRUE
    /\ whOp' = [op |-> "other"]
    /\ UNCHANGED <<dconf, script, breakers, clock, requests, delivery,
                   deliveryAttempts, deadLetters>>
    /\ UNCHANGED notDeliver

\* A second passes.
ClockTick ==
    /\ clock < MaxClock
    /\ clock' = clock + 1
    /\ UNCHANGED <<dconf, script, breakers, ctxDone, requests, delivery,
                   deliveryAttempts, deadLetters, whOp>>
    /\ UNCHANGED notDeliver

NextDeliver ==
    \/ \E accept \in BOOLEAN : Deliver(accept)
    \/ \E accept \in BOOLEAN : Retry(accept)
    \/ RetryCancelled
    \/ CancelCtx
    \/ ClockTick

(***************************************************************************)
(* SFU forwarders: one subscription on a simulcast or an SVC track, the    *)
(* settings UpdateSubscription writes and the forwarder task that reads    *)
(* them.                                                                   *)
(***************************************************************************)

\* VideoQualityLevel: QualityLow, QualityMedium, QualityHigh.
QualityLow == 1
QualityMedium == 2
QualityHigh == 3
Qualities == {QualityLow, QualityMedium, QualityHigh}

\* The RIDs of simulcast layers; "" is the sole layer of another track.
RIDs == {"q", "h", "f"}

\* qualityToRID
qualityToRIDShifted(q) ==
    CASE q = QualityLow -> "h"
      [] q = QualityMedium -> "f"
      [] q = QualityHigh -> "f"
      [] OTHER -> ""
qualityToRID(q) ==
    CASE q = QualityLow -> "q"
      [] q = QualityMedium -> "h"
      [] q = QualityHigh -> "f"
      [] OTHER -> ""

\* SVC layer limits a subscription can carry: -1 is "all".
LayerLimits == (0 - 1)..MaxLayerId

\* The tracks a forwarder runs for: a simulcast track with some layers, or
\* an SVC track (marked by SetSVC) with its sole layer, VP9 or another codec.
TrackShapes ==
    {[simulcast |-> TRUE, svc |-> FALSE, vp9 |-> FALSE, layers |-> L] :
        L \in (SUBSET RIDs) \ {{}}}
    \cup {[simulcast |-> FALSE, svc |-> TRUE, vp9 |-> v, layers |-> {""}] :
        v \in BOOLEAN}

\* The packets remote.Read returns on an SVC track: one rtp.Packet.Unmarshal
\* rejects, one whose payload VP9Packet.Unmarshal rejects, or a VP9 packet
\* with its spatial and temporal layer ids.
SvcPackets ==
    {[rtpOK |-> FALSE, vp9OK |-> FALSE, SID |-> 0, TID |-> 0],
     [rtpOK |-> TRUE, vp9OK |-> FALSE, SID |-> 0, TID |-> 0]}
    \cup [rtpOK : {TRUE}, vp9OK : {TRUE}, SID : 0..MaxLayerId, TID : 0..MaxLayerId]

NoPacket == [rtpOK |-> FALSE, vp9OK |-> FALSE, SID |-> 0, TID |-> 0]

\* NewSubscription for the forwarder model: quality 0 becomes QualityHigh.
NewFwdSubscription(quality, maxTemporal, maxSpatial) ==
    [currentQuality |-> IF quality = 0 THEN QualityHigh ELSE quality,
     maxTemporalLayer |-> maxTemporal,
     maxSpatialLayer |-> maxSpatial,
     paused |-> FALSE,
     cancelled |-> FALSE]

\* The forwarder task at the top of its loop.
NewForwarder ==
    [pc |-> "top", quality |-> 0, maxSpatial |-> 0 - 1, maxTemporal |-> 0 - 1,
     layers |-> {}, layer |-> "", pkt |-> NoPacket, pliSent |-> FALSE]

\* PublisherTrack.Subscribe on a track of one of the shapes, startForwarder
\* having started the task.
\* The settings a subscription on the track is given: the quality varies on
\* a simulcast track, the layer limits on an SVC track (the forwarder of
\* either kind reads nothing else).
QualitiesFor(track) == IF track.simulcast THEN Qualities ELSE {QualityHigh}
LimitsFor(track) == IF track.svc THEN LayerLimits ELSE {0 - 1}

ForwardInit(shapes) ==
    /\ ftrack \in shapes
    /\ \E q \in QualitiesFor(ftrack) \cup {0}, t \in LimitsFor(ftrack),
          s \in LimitsFor(ftrack) :
          fsub = NewFwdSubscription(q, t, s)
    /\ fwd = NewForwarder
    /\ fwOp = [op |-> "none"]

\* A forwarder at rest on one fixed track.
ForwardIdle ==
    /\ ftrack = [simulcast |-> TRUE, svc |-> FALSE, vp9 |-> FALSE,
                 layers |-> {"f"}]
    /\ fsub = NewFwdSubscription(0, 0 - 1, 0 - 1)
    /\ fwd = NewForwarder
    /\ fwOp = [op |-> "none"]

\* PublisherTrack.UpdateSubscription: all four settings are written under
\* the subscription's lock.
UpdateSubscription(quality, maxTemporal, maxSpatial, paused) ==
    /\ fsub' = [fsub EXCEPT !.currentQuality = quality,
                            !.maxTemporalLayer = maxTemporal,
                            !.maxSpatialLayer = maxSpatial,
                            !.paused = paused]
    /\ fsub' # fsub
    /\ fwOp' = [op |-> "UpdateSubscription"]
    /\ UNCHANGED <<ftrack, fwd>>
    /\ UNCHANGED notForward

\* PublisherTrack.AddLayer: a further simulcast layer arrives.
AddLayer(rid) ==
    /\ ftrack.simulcast
    /\ rid \notin ftrack.layers
    /\ ftrack' = [ftrack EXCEPT !.layers = @ \cup {rid}]
    /\ fwOp' = [op |-> "AddLayer"]
    /\ UNCHANGED <<fsub, fwd>>
    /\ UNCHANGED notForward

\* Subscription.Close: the forwarder's context is cancelled.
FwdSubClose ==
    /\ ~fsub.cancelled
    /\ fsub' = [fsub EXCEPT !.cancelled = TRUE]
    /\ fwOp' = [op |-> "Close"]
    /\ UNCHANGED <<ftrack, fwd>>
    /\ UNCHANGED notForward

\* Either forwarder at the top of its loop, case <-ctx.Done(): return.
ForwarderExit ==
    /\ fwd.pc = "top"
    /\ fsub.cancelled
    /\ fwd' = [fwd EXCEPT !.pc = "done"]
    /\ fwOp' = [op |-> "Exit"]
    /\ UNCHANGED <<ftrack, fsub>>
    /\ UNCHANGED notForward

\* remote.Read returns an error: the forwarder returns.
ForwarderReadError ==
    /\ \/ ftrack.svc /\ ~ftrack.simulcast /\ fwd.pc = "top" /\ ~fsub.cancelled
       \/ ftrack.simulcast /\ fwd.pc = "read"
    /\ fwd' = [fwd EXCEPT !.pc = "done"]
    /\ fwOp' = [op |-> "Exit"]
    /\ UNCHANGED <<ftrack, fsub>>
    /\ UNCHANGED notForward

\* RunSVCForwarder: remote.Read returns a packet.
SvcRead(pkt) ==
    /\ ftrack.svc /\ ~ftrack.simulcast
    /\ fwd.pc = "top"
    /\ ~fsub.cancelled
    /\ fwd' = [fwd EXCEPT !.pc = "lock", !.pkt = pkt]
    /\ fwOp' = [op |-> "Read"]
    /\ UNCHANGED <<ftrack, fsub>>
    /\ UNCHANGED notForward

\* RunSVCForwarder: the settings are copied under the subscription's lock; a
\* paused subscription skips the packet.
SvcLock ==
    /\ ftrack.svc /\ ~ftrack.simulcast
    /\ fwd.pc = "lock"
    /\ fwd' = IF fsub.paused THEN NewForwarder
               ELSE [fwd EXCEPT !.pc = "filter",
                                !.maxSpatial = fsub.maxSpatialLayer,
                                !.maxTemporal = fsub.maxTemporalLayer]
    /\ fwOp' = [op |-> IF fsub.paused THEN "Skip" ELSE "Lock"]
    /\ UNCHANGED <<ftrack, fsub>>
    /\ UNCHANGED notForward

\* RunSVCForwarder: whether the packet is dropped under the copied limits.
SvcDropsSpatialOnly(isVP9, pkt, maxSpatial, maxTemporal) ==
    /\ isVP9
    /\ maxSpatial >= 0 \/ maxTemporal >= 0
    /\ \/ ~pkt.rtpOK
       \/ pkt.vp9OK /\ maxSpatial >= 0 /\ pkt.SID > maxSpatial
SvcDrops(isVP9, pkt, maxSpatial, maxTemporal) ==
    /\ isVP9
    /\ maxSpatial >= 0 \/ maxTemporal >= 0
    /\ \/ ~pkt.rtpOK
       \/ pkt.vp9OK /\ maxSpatial >= 0 /\ pkt.SID > maxSpatial
       \/ pkt.vp9OK /\ maxTemporal >= 0 /\ pkt.TID > maxTemporal

\* RunSVCForwarder: the packet is dropped, or written to the down track.
SvcFilter ==
    /\ ftrack.svc /\ ~ftrack.simulcast
    /\ fwd.pc = "filter"
    /\ fwd' = NewForwarder
    /\ fwOp' = IF SvcDrops(ftrack.vp9, fwd.pkt, fwd.maxSpatial, fwd.maxTemporal)
               THEN [op |-> "Drop"]
               ELSE [op |-> "Write", kind |-> "svc", pkt |-> fwd.pkt,
                     maxSpatial |-> fwd.maxSpatial,
                     maxTemporal |-> fwd.maxTemporal]
    /\ UNCHANGED <<ftrack, fsub>>
    /\ UNCHANGED notForward

\* RunSimulcastForwarder: paused and currentQuality are copied under the
\* subscription's lock; a paused subscription sleeps and starts over.
SimLock ==
    /\ ftrack.simulcast
    /\ fwd.pc = "top"
    /\ ~fsub.cancelled
    /\ fwd' = IF fsub.paused THEN fwd
               ELSE [fwd EXCEPT !.pc = "pick", !.quality = fsub.currentQuality]
    /\ fwOp' = [op |-> IF fsub.paused THEN "Sleep" ELSE "Lock"]
    /\ UNCHANGED <<ftrack, fsub>>
    /\ UNCHANGED notForward

\* RunSimulcastForwarder: the layers the lookup can return: pt.layers[rid],
\* or when that is missing the first layer a range over the map yields.
PickLayer(layers, rid) == IF rid \in layers THEN {rid} ELSE layers

\* RunSimulcastForwarder: the layer is looked up under the track's lock.
SimPick(l) ==
    /\ ftrack.simulcast
    /\ fwd.pc = "pick"
    /\ l \in PickLayer(ftrack.layers, qualityToRID(fwd.quality))
    /\ fwd' = [fwd EXCEPT !.pc = "read", !.layer = l, !.layers = ftrack.layers]
    /\ fwOp' = [op |-> "Pick"]
    /\ UNCHANGED <<ftrack, fsub>>
    /\ UNCHANGED notForward

\* RunSimulcastForwarder: layer.remote.Read returns a packet of that layer.
SimRead ==
    /\ ftrack.simulcast
    /\ fwd.pc = "read"
    /\ fwd' = [fwd EXCEPT !.pc = "write"]
    /\ fwOp' = [op |-> "Read"]
    /\ UNCHANGED <<ftrack, fsub>>
    /\ UNCHANGED notForward

\* RunSimulcastForwarder: dt.Write of the packet read.
SimWrite ==
    /\ ftrack.simulcast
    /\ fwd.pc = "write"
    /\ fwd' = [fwd EXCEPT !.pc = "pli"]
    /\ fwOp' = [op |-> "Write", kind |-> "simulcast", layer |-> fwd.layer,
                quality |-> fwd.quality, layers |-> fwd.layers]
    /\ UNCHANGED <<ftrack, fsub>>
    /\ UNCHANGED notForward

\* RunSimulcastForwarder: after the write, a PLI for the new layer when the
\* quality changed meanwhile, the debouncer allows it (always the first
\* time) and the new RID has a layer.
SimCheckPLI(debounceOK) ==
    /\ ftrack.simulcast
    /\ fwd.pc = "pli"
    /\ debounceOK \/ ~fwd.pliSent
    /\ LET changed == fsub.currentQuality # fwd.quality
           newRID == qualityToRID(fsub.currentQuality)
       IN /\ fwd' = [NewForwarder EXCEPT !.pliSent = fwd.pliSent \/ changed]
          /\ fwOp' = IF changed /\ newRID \in ftrack.layers
                     THEN [op |-> "PLI", rid |-> newRID]
                     ELSE [op |-> "NoPLI"]
    /\ UNCHANGED <<ftrack, fsub>>
    /\ UNCHANGED notForward

NextForward ==
    \/ \E q \in QualitiesFor(ftrack), t \in LimitsFor(ftrack),
          s \in LimitsFor(ftrack), p \in BOOLEAN :
          UpdateSubscription(q, t, s, p)
    \/ \E rid \in RIDs : AddLayer(rid)
    \/ FwdSubClose
    \/ ForwarderExit
    \/ ForwarderReadError
    \/ \E pkt \in SvcPackets : SvcRead(pkt)
    \/ SvcLock
    \/ SvcFilter
    \/ SimLock
    \/ \E l \in RIDs : SimPick(l)
    \/ SimRead
    \/ SimWrite
    \/ \E d \in BOOLEAN : SimCheckPLI(d)

(***************************************************************************)
(* SFU: one room, its peers, publisher tracks and subscriptions.  Objects  *)
(* are numbered in creation order; 0 stands for "no object" (a missing map *)
(* entry).                                                                 *)
(***************************************************************************)
PeerIds == {"a", "b"}
TrackIds == {"t1", "t2"}
\* Ids are interchangeable: the first peer to join is "a" and the first track
\* published is "t1".
FirstPeerId == "a"
FirstTrackId == "t1"

\* The quality the callers of Room.Subscribe ask for.
SubscribeQuality == QualityLow

\* The audio taps registered by id.
TapIds == {"asr"}

\* The tracks the transport delivers: audio without a RID, video with one.
Shapes == {<<"audio", FALSE>>, <<"video", TRUE>>}

\* The room configurations tried: <<maxPeers, autoSubscribeAudio,
\* e2eeRequired>>; an E2EE room only at capacity 1 without auto-subscribe.
RoomConfigs ==
    ((1..MaxPeersCap) \X BOOLEAN \X {FALSE}) \cup {<<1, FALSE, TRUE>>}

NoDownTracks == [t \in TrackIds |-> 0]
NoSubscribers == [p \in PeerIds |-> 0]

\* NewPeer: a live peer with no down tracks, in state connecting.  Its
\* peerConfig.AutoSubscribeAudio is true: JoinRoom, the SIP bridge and
\* DefaultPeerConfig all set it.
NewPeer(id) ==
    [id |-> id, closed |-> FALSE, downTracks |-> NoDownTracks, state |-> "connecting",
     autoSubscribeAudio |-> TRUE]

\* NewPublisherTrack: simulcast iff the remote track carries a RID.
NewPublisherTrack(publisher, id, kind, hasRID) ==
    [id |-> id, publisher |-> publisher, kind |-> kind, simulcast |-> hasRID,
     cancelled |-> FALSE, subscribers |-> NoSubscribers, audioTaps |-> {}]

\* NewSubscription: its context is a child of the track's context.
NewSubscription(t, subscriber, quality) ==
    [track |-> t, subscriber |-> subscriber, cancelled |-> FALSE, forwarder |-> FALSE,
     currentQuality |-> IF quality = 0 THEN QualityHigh ELSE quality]

\* The object graph the room operations work on.
Graph == [peers |-> peers, tracks |-> tracks, subs |-> subs]

\* ctx.Done() of a peer, a publisher track (child of its publisher's
\* context) and a subscription (child of its track's context).
PeerDone(G, o) == G.peers[o].closed
TrackDone(G, t) == G.tracks[t].cancelled \/ PeerDone(G, G.tracks[t].publisher)
SubDone(G, s) == G.subs[s].cancelled \/ TrackDone(G, G.subs[s].track)

\* Peer.AddDownTrack fails once the peer connection is closed.
AddDownTrackOK(G, o) == ~G.peers[o].closed

\* PublisherTrack.startForwarder: a forwarder task is started only for
\* simulcast tracks; simple tracks are written by the track's reader loop.
startForwarder(G, t) == G.tracks[t].simulcast

\* PublisherTrack.Subscribe, run to completion (as under the room lock in
\* AddPeer and RegisterPublisherTrack): add the down track to the subscriber,
\* create the subscription, store it under the subscriber's id (replacing
\* whatever was stored there) and start its forwarder.
PtSubscribe(G, t, o, quality) ==
    IF ~AddDownTrackOK(G, o) THEN G
    ELSE LET s == Len(G.subs) + 1
             tid == G.tracks[t].id
             pid == G.peers[o].id
         IN [peers |-> [G.peers EXCEPT ![o].downTracks[tid] = s],
             subs |-> Append(G.subs,
                        [NewSubscription(t, o, quality) EXCEPT
                            !.forwarder = startForwarder(G, t)]),
             tracks |-> [G.tracks EXCEPT ![t].subscribers[pid] = s]]

\* Subscription.Close: cancel the subscription's context.
SubClose(G, s) == [G EXCEPT !.subs[s].cancelled = TRUE]

\* Peer.RemoveDownTrack: drop the entry stored under the track id.
RemoveDownTrack(G, o, tid) == [G EXCEPT !.peers[o].downTracks[tid] = 0]

\* PublisherTrack.Unsubscribe: remove the entry, close the subscription and
\* remove the down track from the subscription's subscriber.
PtUnsubscribe(G, t, pid) ==
    LET s == G.tracks[t].subscribers[pid] IN
    IF s = 0 THEN G
    ELSE RemoveDownTrack(
             SubClose([G EXCEPT !.tracks[t].subscribers[pid] = 0], s),
             G.subs[s].subscriber, G.tracks[t].id)

\* PublisherTrack.Close: empty the subscriber map, close every subscription
\* that was in it, cancel the track's context.
PtClose(G, t) ==
    LET held == {G.tracks[t].subscribers[p] : p \in PeerIds} \ {0} IN
    [G EXCEPT !.tracks[t].subscribers = NoSubscribers,
              !.tracks[t].cancelled = TRUE,
              !.subs = [s \in DOMAIN G.subs |->
                           IF s \in held THEN [G.subs[s] EXCEPT !.cancelled = TRUE]
                           ELSE G.subs[s]]]

\* Peer.Close (once): drop the down tracks, set the state to disconnected,
\* close the connection, cancel the peer's context.
PeerClose(G, o) ==
    IF G.peers[o].closed THEN G
    ELSE [G EXCEPT !.peers[o].downTracks = NoDownTracks, !.peers[o].closed = TRUE,
                   !.peers[o].state = "disconnected"]

\* for _, pt := range r.publisherTracks { pt.Subscribe(p, ...) }: peer object
\* o is subscribed to each track of the set T in turn.
RECURSIVE SubscribeToEach(_, _, _)
SubscribeToEach(G, T, o) ==
    IF T = {} THEN G
    ELSE LET t == CHOOSE x \in T : TRUE
         IN SubscribeToEach(PtSubscribe(G, t, o, QualityHigh), T \ {t}, o)

\* for _, peer := range r.peers { pt.Subscribe(peer, ...) }: each peer object
\* of the set P in turn is subscribed to track t.
RECURSIVE SubscribeEach(_, _, _)
SubscribeEach(G, t, P) ==
    IF P = {} THEN G
    ELSE LET o == CHOOSE x \in P : TRUE
         IN SubscribeEach(PtSubscribe(G, t, o, QualityHigh), t, P \ {o})

\* for _, pt := range r.publisherTracks { pt.Unsubscribe(peerID) }
RECURSIVE UnsubscribeFromEach(_, _, _)
UnsubscribeFromEach(G, T, pid) ==
    IF T = {} THEN G
    ELSE LET t == CHOOSE x \in T : TRUE
         IN UnsubscribeFromEach(PtUnsubscribe(G, t, pid), T \ {t}, pid)

\* for _, pt := range ... { pt.Close() }
RECURSIVE CloseEach(_, _)
CloseEach(G, T) ==
    IF T = {} THEN G
    ELSE LET t == CHOOSE x \in T : TRUE IN CloseEach(PtClose(G, t), T \ {t})

\* The subscriptions peer object o holds as a subscriber: those created for
\* it, apart from one a Subscribe call in flight has not stored yet.
HeldBy(o) ==
    {s \in DOMAIN subs : subs[s].subscriber = o}
        \ (IF subCall.pc = "insert" THEN {Len(subs)} ELSE {})

\* The publisher tracks peer object o owns.
OwnedBy(o) == {t \in DOMAIN tracks : tracks[t].publisher = o}

\* A peer.Close() that Room.RemovePeer (rm) or Room.Close still has to make
\* after releasing the room lock, with what the peer held when the call began.
Pending(o, rm) == [peer |-> o, rm |-> rm, held |-> HeldBy(o), owned |-> OwnedBy(o)]

\* The track objects registered in the room.
Registered(r) == {r.publisherTracks[tid] : tid \in TrackIds} \ {0}

\* len(r.peers)
PeerCount(r) == Cardinality({p \in PeerIds : r.peers[p] # 0})

\* AddPeer's capacity test: len(r.peers) >= r.maxPeers.
RoomFullOffByOne(r) == PeerCount(r) > r.maxPeers
RoomFull(r) == PeerCount(r) >= r.maxPeers

\* ValidateE2EERoom: a peer without encryption metadata is rejected.
E2EERejected(r, enc) == r.e2eeRequired /\ ~enc

\* AddPeer: what the call returns for a peer declaring encryption or not.
AddPeerResult(r, enc) ==
    IF r.closed THEN "closed"
    ELSE IF RoomFull(r) THEN "full"
    ELSE IF E2EERejected(r, enc) THEN "e2ee"
    ELSE "ok"

\* The audio tracks AddPeer auto-subscribes a new peer to.
AutoSubscribeNoTracks(G, r, id) == {}
AutoSubscribeTracks(G, r, id) ==
    IF r.autoSubscribeAudio /\ G.peers[Len(G.peers)].autoSubscribeAudio
    THEN {t \in Registered(r) :
             G.tracks[t].kind = "audio" /\ G.peers[G.tracks[t].publisher].id # id}
    ELSE {}

\* The peers RegisterPublisherTrack auto-subscribes to a new audio track.
AutoSubscribePeers(G, r, kind, publisher) ==
    IF r.autoSubscribeAudio /\ kind = "audio"
    THEN {o \in {r.peers[p] : p \in {q \in PeerIds : q # G.peers[publisher].id}} \ {0} :
             G.peers[o].autoSubscribeAudio}
    ELSE {}

SFUInit(configs) ==
    /\ \E c \in configs :
          room = [maxPeers |-> c[1], closed |-> FALSE, autoSubscribeAudio |-> c[2],
                  e2eeRequired |-> c[3],
                  peers |-> [p \in PeerIds |-> 0],
                  publisherTracks |-> [t \in TrackIds |-> 0],
                  audioTaps |-> {}]
    /\ peers = <<>>
    /\ tracks = <<>>
    /\ subs = <<>>
    /\ subCall = [pc |-> "idle"]
    /\ closing = {}
    /\ sfuOp = [op |-> "none"]

\* The object graph after an operation.
SetGraph(G) ==
    /\ peers' = G.peers
    /\ tracks' = G.tracks
    /\ subs' = G.subs

\* NewPeer followed by Room.AddPeer for a peer with the given id; a peer the
\* room refuses is closed by the caller and never seen again.
AddPeer(id, enc) ==
    LET res == AddPeerResult(room, enc)
        o == Len(peers) + 1
        G0 == [Graph EXCEPT !.peers = Append(peers, NewPeer(id))]
        auto == AutoSubscribeTracks(G0, room, id)
    IN /\ sfuOp' = [op |-> "AddPeer", before |-> PeerCount(room), res |-> res]
       /\ IF res = "ok"
          THEN /\ Len(peers) < MaxPeerObjs
               /\ peers = <<>> => id = FirstPeerId
               /\ Len(subs) + Cardinality(auto) <= MaxSubObjs
               /\ room' = [room EXCEPT !.peers[id] = o]
               /\ SetGraph(SubscribeToEach(G0, auto, o))
          ELSE UNCHANGED <<room, peers, tracks, subs>>
       /\ UNCHANGED <<subCall, closing>>
       /\ UNCHANGED notSFU

\* Room.RemovePeer up to r.mu.Unlock: unlink the peer, unsubscribe its id from
\* every registered track, close and unregister the tracks whose publisher
\* carries the id.
RemovePeerFrom(G, id) ==
    LET o == room.peers[id]
        G1 == UnsubscribeFromEach(G, Registered(room), id)
        owned == {t \in Registered(room) : G1.peers[G1.tracks[t].publisher].id = id}
    IN IF o = 0
       THEN /\ SetGraph(G)
            /\ UNCHANGED <<room, closing>>
       ELSE /\ room' = [room EXCEPT
                   !.peers[id] = 0,
                   !.publisherTracks = [tid \in TrackIds |->
                       IF room.publisherTracks[tid] \in owned THEN 0
                       ELSE room.publisherTracks[tid]]]
            /\ SetGraph(CloseEach(G1, owned))
            /\ closing' = closing \cup {Pending(o, TRUE)}

RemovePeerLocked(id) ==
    /\ sfuOp' = [op |-> "RemovePeerLocked", peer |-> room.peers[id],
                 before |-> PeerCount(room)]
    /\ RemovePeerFrom(Graph, id)
    /\ UNCHANGED <<subCall>>
    /\ UNCHANGED notSFU

\* The states of the transport a peer connection reports, and what the
\* OnConnectionStateChange callback of NewPeer makes of each: the peer's new
\* state, and whether it then calls Room.RemovePeer with the peer's id.
Reports == {"connected", "failed", "closed", "disconnected"}
StateOn(report, state) == IF report = "connected" THEN "connected" ELSE "disconnected"
RemovesOnFailedOnly(report) == report = "failed"
Removes(report) == report \in {"failed", "closed"}

\* The callback for a report on peer object o.  The room reads no peer's
\* state, so the callback's RemovePeer is taken in the same step as its
\* assignment: a room operation between the two would commute with the
\* assignment.  The peer.Close() at the end of RemovePeer is PeerCloseReturn.
OnConnectionStateChange(o, report) ==
    LET G == [Graph EXCEPT !.peers[o].state = StateOn(report, peers[o].state)] IN
    /\ o \in DOMAIN peers
    /\ sfuOp' = [op |-> "StateChange", peer |-> o, report |-> report,
                 before |-> room.peers]
    /\ IF Removes(report)
       THEN RemovePeerFrom(G, peers[o].id)
       ELSE /\ SetGraph(G)
            /\ UNCHANGED <<room, closing>>
    /\ UNCHANGED <<subCall>>
    /\ UNCHANGED notSFU

\* The tail of RemovePeer and of Room.Close: peer.Close() after the room lock
\* is released; the call returns.
PeerCloseReturn(c) ==
    /\ c \in closing
    /\ closing' = closing \ {c}
    /\ SetGraph(PeerClose(Graph, c.peer))
    /\ sfuOp' = [op |-> "PeerClosed", call |-> c]
    /\ UNCHANGED <<room, subCall>>
    /\ UNCHANGED notSFU

\* Room.Close up to r.mu.Unlock: mark closed, unlink every peer, close and
\* unregister every track.
RoomCloseLocked ==
    /\ ~room.closed
    /\ room' = [room EXCEPT !.closed = TRUE,
                             !.peers = [p \in PeerIds |-> 0],
                             !.audioTaps = {},
                             !.publisherTracks = [t \in TrackIds |-> 0]]
    /\ SetGraph(CloseEach(Graph, Registered(room)))
    /\ closing' = closing \cup
          {Pending(o, FALSE) : o \in {room.peers[p] : p \in PeerIds} \ {0}}
    /\ sfuOp' = [op |-> "other"]
    /\ UNCHANGED <<subCall>>
    /\ UNCHANGED notSFU

\* The room-level taps RegisterPublisherTrack registers on a new track.
TapsForNone(r, kind) == {}
TapsFor(r, kind) == IF kind = "audio" THEN r.audioTaps ELSE {}

\* The OnTrack callback of peer o, whenever the transport delivers it:
\* Room.RegisterPublisherTrack.  A RID on a track id already registered adds a
\* layer to the existing track; otherwise a new track is stored under the id.
OnTrack(o, tid, kind, hasRID) ==
    LET existing == room.publisherTracks[tid]
        t == Len(tracks) + 1
        G0 == [Graph EXCEPT !.tracks =
                  Append(tracks, [NewPublisherTrack(o, tid, kind, hasRID) EXCEPT
                                     !.audioTaps = TapsFor(room, kind)])]
        auto == AutoSubscribePeers(G0, room, kind, o)
    IN /\ o \in DOMAIN peers
       /\ ~peers[o].closed
       /\ sfuOp' = [op |-> "OnTrack", layer |-> existing # 0 /\ hasRID]
       /\ IF existing # 0 /\ hasRID
          THEN /\ tracks' = [tracks EXCEPT ![existing].simulcast = TRUE]
               /\ UNCHANGED <<room, peers, subs>>
          ELSE /\ Len(tracks) < MaxTrackObjs
               /\ tracks = <<>> => tid = FirstTrackId
               /\ Len(subs) + Cardinality(auto) <= MaxSubObjs
               /\ room' = [room EXCEPT !.publisherTracks[tid] = t]
               /\ SetGraph(SubscribeEach(G0, t, auto))
       /\ UNCHANGED <<subCall, closing>>
       /\ UNCHANGED notSFU

\* Room.Subscribe, first step (under r.mu.RLock): look the track and the
\* subscriber up by id.
SubscribeLookup(pid, tid) ==
    LET t == room.publisherTracks[tid]
        o == room.peers[pid]
        res == IF t = 0 THEN "track not found"
               ELSE IF o = 0 THEN "peer not found" ELSE "pending"
    IN /\ subCall.pc = "idle"
       /\ Len(subs) < MaxSubObjs
       /\ sfuOp' = [op |-> "other"]
       /\ subCall' = IF res = "pending"
                     THEN [pc |-> "addDownTrack", peer |-> o, track |-> t,
                           quality |-> SubscribeQuality]
                     ELSE subCall
       /\ UNCHANGED <<room, peers, tracks, subs, closing>>
       /\ UNCHANGED notSFU

\* PublisherTrack.Subscribe, second step: subscriber.AddDownTrack (under the
\* peer's lock) and NewSubscription.
SubscribeAddDownTrack ==
    LET o == subCall.peer
        t == subCall.track
        s == Len(subs) + 1
    IN /\ subCall.pc = "addDownTrack"
       /\ IF AddDownTrackOK(Graph, o)
          THEN /\ peers' = [peers EXCEPT ![o].downTracks[tracks[t].id] = s]
               /\ subs' = Append(subs, NewSubscription(t, o, subCall.quality))
               /\ subCall' = [subCall EXCEPT !.pc = "insert"]
               /\ sfuOp' = [op |-> "other"]
          ELSE /\ subCall' = [pc |-> "idle"]
               /\ sfuOp' = [op |-> "other"]
               /\ UNCHANGED <<peers, subs>>
       /\ UNCHANGED <<room, tracks, closing>>
       /\ UNCHANGED notSFU

\* PublisherTrack.Subscribe, last step (under pt.mu): store the subscription
\* under the subscriber's id and start its forwarder; the call returns.
SubscribeInsert ==
    LET o == subCall.peer
        t == subCall.track
        s == Len(subs)
    IN /\ subCall.pc = "insert"
       /\ tracks' = [tracks EXCEPT ![t].subscribers[peers[o].id] = s]
       /\ subs' = [subs EXCEPT ![s].forwarder = startForwarder(Graph, t)]
       /\ subCall' = [pc |-> "idle"]
       /\ sfuOp' = [op |-> "Subscribe", res |-> "ok", sub |-> s,
                    prior |-> tracks[t].subscribers[peers[o].id]]
       /\ UNCHANGED <<room, peers, closing>>
       /\ UNCHANGED notSFU

\* Room.Unsubscribe: look the track up and PublisherTrack.Unsubscribe.
Unsubscribe(pid, tid) ==
    LET t == room.publisherTracks[tid] IN
    /\ t # 0
    /\ tracks[t].subscribers[pid] # 0
    /\ SetGraph(PtUnsubscribe(Graph, t, pid))
    /\ sfuOp' = [op |-> "other"]
    /\ UNCHANGED <<room, subCall, closing>>
    /\ UNCHANGED notSFU

\* One round of RunSimulcastForwarder for subscription s: the forwarder was
\* started and its context is not done (it returns once it is), so it reads a
\* packet and writes it to the subscription's down track.
ForwarderWrite(s) ==
    /\ s \in DOMAIN subs
    /\ subs[s].forwarder
    /\ ~SubDone(Graph, s)
    /\ sfuOp' = [op |-> "Write", sub |-> s]
    /\ UNCHANGED <<room, peers, tracks, subs, subCall, closing>>
    /\ UNCHANGED notSFU

\* One round of rtpReaderLoop for a simple track t whose context is not done:
\* the packet is written to the down track of a subscription in the map.
ReaderForward(t, pid) ==
    /\ t \in DOMAIN tracks
    /\ ~TrackDone(Graph, t)
    /\ ~tracks[t].simulcast
    /\ tracks[t].subscribers[pid] # 0
    /\ sfuOp' = [op |-> "Write", sub |-> tracks[t].subscribers[pid]]
    /\ UNCHANGED <<room, peers, tracks, subs, subCall, closing>>
    /\ UNCHANGED notSFU

\* Room.AddAudioTap: store the tap under its id and register it on every
\* registered audio track.
AddAudioTap(id) ==
    /\ room' = [room EXCEPT !.audioTaps = @ \cup {id}]
    /\ tracks' = [t \in DOMAIN tracks |->
                     IF t \in Registered(room) /\ tracks[t].kind = "audio"
                     THEN [tracks[t] EXCEPT !.audioTaps = @ \cup {id}]
                     ELSE tracks[t]]
    /\ sfuOp' = [op |-> "AddAudioTap", tap |-> id]
    /\ UNCHANGED <<peers, subs, subCall, closing>>
    /\ UNCHANGED notSFU

\* Room.RemoveAudioTap: delete the tap and remove it from every registered
\* audio track.
RemoveAudioTap(id) ==
    /\ room' = [room EXCEPT !.audioTaps = @ \ {id}]
    /\ tracks' = [t \in DOMAIN tracks |->
                     IF t \in Registered(room) /\ tracks[t].kind = "audio"
                     THEN [tracks[t] EXCEPT !.audioTaps = @ \ {id}]
                     ELSE tracks[t]]
    /\ sfuOp' = [op |-> "RemoveAudioTap", tap |-> id]
    /\ UNCHANGED <<peers, subs, subCall, closing>>
    /\ UNCHANGED notSFU

\* The room with its transport and its taps: peers join and leave, the
\* transport reports connection states and delivers tracks, taps are
\* registered and removed; nobody calls Room.Subscribe.
NextRoomMedia ==
    \/ \E id \in PeerIds, enc \in BOOLEAN : AddPeer(id, enc)
    \/ \E id \in PeerIds : RemovePeerLocked(id)
    \/ \E o \in DOMAIN peers, report \in Reports : OnConnectionStateChange(o, report)
    \/ \E c \in closing : PeerCloseReturn(c)
    \/ RoomCloseLocked
    \/ \E o \in DOMAIN peers, tid \in TrackIds, sh \in Shapes :
          OnTrack(o, tid, sh[1], sh[2])
    \/ \E id \in TapIds : AddAudioTap(id)
    \/ \E id \in TapIds : RemoveAudioTap(id)

NextSFU ==
    \/ \E id \in PeerIds, enc \in BOOLEAN : AddPeer(id, enc)
    \/ \E id \in PeerIds : RemovePeerLocked(id)
    \/ \E c \in closing : PeerCloseReturn(c)
    \/ RoomCloseLocked
    \/ \E o \in DOMAIN peers, tid \in TrackIds, sh \in Shapes :
          OnTrack(o, tid, sh[1], sh[2])
    \/ \E pid \in PeerIds, tid \in TrackIds : SubscribeLookup(pid, tid)
    \/ SubscribeAddDownTrack
    \/ SubscribeInsert
    \/ \E pid \in PeerIds, tid \in TrackIds : Unsubscribe(pid, tid)
    \/ \E s \in DOMAIN subs : ForwarderWrite(s)
    \/ \E t \in DOMAIN tracks, pid \in PeerIds : ReaderForward(t, pid)

(***************************************************************************)
(* Dialog service handler (internal/dialog/handler) and the dialog FSM     *)
(* (pkg/dialog).                                                           *)
(***************************************************************************)

SessionIds == {"s1", "s2"}
FirstSessionId == "s1"

\* The dialog the handler serves: three states, one speech transition out of
\* each of the first two, a timeout on the first.  Timeouts are in seconds;
\* an action is kept as its type.
TestDialog ==
    [InitialState |-> "greeting",
     States |->
        [greeting |->
            [OnEnter |-> <<"play_tts">>,
             Transitions |-> <<[Event |-> "speech", Condition |-> "",
                                Target |-> "handle_input", Actions |-> <<>>]>>,
             Timeout |-> 30, TimeoutNext |-> "goodbye", Terminal |-> FALSE],
         handle_input |->
            [OnEnter |-> <<"play_tts">>,
             Transitions |-> <<[Event |-> "speech", Condition |-> "",
                                Target |-> "goodbye", Actions |-> <<>>]>>,
             Timeout |-> 0, TimeoutNext |-> "", Terminal |-> FALSE],
         goodbye |->
            [OnEnter |-> <<"play_tts", "hangup">>,
             Transitions |-> <<>>,
             Timeout |-> 0, TimeoutNext |-> "", Terminal |-> TRUE]]]

\* A state that prompts again every time its timeout fires: timeout_next is
\* the state itself, which Validate accepts.
HoldState ==
    [OnEnter |-> <<"play_tts">>,
     Transitions |-> <<>>,
     Timeout |-> 30, TimeoutNext |-> "hold", Terminal |-> FALSE]

\* The states of the dialog the loader hands to the handler: those of the
\* test dialog and the state hold.  No transition leads to hold; a session
\* is in it only when StartDialog is asked for it as the initial state.
ServedStates ==
    [name \in DOMAIN TestDialog.States \cup {"hold"} |->
        IF name = "hold" THEN HoldState ELSE TestDialog.States[name]]

\* StateMachine.GetState: the second result (found or not).
HasState(name) == name \in DOMAIN ServedStates

\* StateMachine.GetState: the state definition.
GetState(name) == ServedStates[name]

\* EvalCondition: an empty condition matches.
EvalCondition(condition) == condition = ""

\* StateMachine.EvaluateTransitions: the target of the first transition, in
\* declaration order, for the event whose condition matches; "" when none.
RECURSIVE FirstMatch(_, _, _)
FirstMatch(ts, i, event) ==
    IF i > Len(ts) THEN ""
    ELSE IF ts[i].Event = event /\ EvalCondition(ts[i].Condition) THEN ts[i].Target
    ELSE FirstMatch(ts, i + 1, event)

EvaluateTransitions(state, event) == FirstMatch(state.Transitions, 1, event)

\* StateMachine.EvaluateTransitions, its second result: the actions of that
\* first transition; none when no transition matches.
RECURSIVE FirstMatchActions(_, _, _)
FirstMatchActions(ts, i, event) ==
    IF i > Len(ts) THEN <<>>
    ELSE IF ts[i].Event = event /\ EvalCondition(ts[i].Condition) THEN ts[i].Actions
    ELSE FirstMatchActions(ts, i + 1, event)

TransitionActions(state, event) == FirstMatchActions(state.Transitions, 1, event)

\* The requests StartDialog is called with: the initial state asked for ("" is
\* the dialog's own), and the event types SendEvent is called with ("dtmf0"
\* is a dtmf event with empty data).
InitialStates == {"", "nowhere"}
EventTypes == {"speech", "dtmf", "dtmf0", "bogus"}

\* actionResult; ev is the SendEvent call in flight whose event produced it
\* (0: none).
ActionResult(newState, terminal, ev) ==
    [actions |-> <<>>, newState |-> newState, terminal |-> terminal, ev |-> ev]

\* allActions := append(actions, newState.OnEnter...)
WithActions(result, actions) == [result EXCEPT !.actions = actions]

NoResult == ActionResult("", FALSE, 0)

\* activeSession as StartDialog builds it, with the position of its loop.
NewActiveSession(id, initialState) ==
    [id |-> id, state |-> initialState,
     speechCh |-> <<>>, dtmfCh |-> <<>>, resultCh |-> <<>>,
     cancelled |-> FALSE, inputsClosed |-> FALSE,
     loop |-> "select", pending |-> NoResult, exitAfter |-> FALSE]

IdleCall == [pc |-> "idle"]

\* What the loop did with the event of a call: nothing yet, or evaluated it
\* in state from with the transition to state to ("" when none matched).
NotHandled == [done |-> FALSE, from |-> "", to |-> ""]
Handled(from, to) == [done |-> TRUE, from |-> from, to |-> to]

\* The events of call c still queued on session a are those of a call that
\* has returned.
RECURSIVE OrphanIn(_, _)
OrphanIn(ch, c) ==
    IF ch = <<>> THEN <<>>
    ELSE <<IF Head(ch) = c THEN 0 ELSE Head(ch)>> \o OrphanIn(Tail(ch), c)

Orphan(a, c) ==
    [a EXCEPT !.speechCh = OrphanIn(a.speechCh, c),
              !.dtmfCh = OrphanIn(a.dtmfCh, c)]

\* The calls after the loop evaluated, in state from, the event that call d
\* sent, moving to state to.
MarkHandled(cs, d, from, to) ==
    IF d = 0 THEN cs ELSE [cs EXCEPT ![d].handled = Handled(from, to)]

\* The handler after NewDialogHandler, with room for n SendEvent calls in
\* flight at once.
DialogInitFor(n) ==
    /\ store = [id \in SessionIds |-> 0]
    /\ sess = <<>>
    /\ calls = [c \in 1..n |-> IdleCall]
    /\ ending = {}
    /\ dlgOp = [op |-> "none"]

DialogInit == DialogInitFor(MaxCalls)

\* The loop of session h can produce nothing more without new input: it has
\* exited, or it rests in select with nothing to read.
Quiescent(h) ==
    \/ sess[h].loop = "done"
    \/ /\ sess[h].loop = "select"
       /\ sess[h].speechCh = <<>>
       /\ sess[h].dtmfCh = <<>>
       /\ ~sess[h].cancelled

\* The loop of session h is stuck sending to a full result channel.
BlockedOnResult(h) ==
    sess[h].loop = "push" /\ Len(sess[h].resultCh) >= ResultChCap

\* StartDialog: build the session, store it under its id, start its loop.
StartDialog(id, initial) ==
    LET initialState == IF initial = "" THEN TestDialog.InitialState ELSE initial
        h == Len(sess) + 1
    IN IF ~HasState(initialState)
       THEN /\ dlgOp' = [op |-> "StartDialog", id |-> id, prior |-> store[id],
                         res |-> "not-found"]
            /\ UNCHANGED <<store, sess, calls, ending>>
            /\ UNCHANGED notDialog
       ELSE /\ Len(sess) < MaxSessionObjs
            /\ sess = <<>> => id = FirstSessionId
            /\ sess' = Append(sess, NewActiveSession(id, initialState))
            /\ store' = [store EXCEPT ![id] = h]
            /\ dlgOp' = [op |-> "StartDialog", id |-> id, prior |-> store[id],
                         res |-> "ok"]
            /\ UNCHANGED <<calls, ending>>
            /\ UNCHANGED notDialog

\* runDialogLoop, top of an iteration: the current state is missing or
\* terminal, so a terminal result is to be sent and the loop returns.
LoopTerminal(h) ==
    /\ sess[h].loop = "select"
    /\ ~HasState(sess[h].state) \/ GetState(sess[h].state).Terminal
    /\ sess' = [sess EXCEPT ![h].loop = "push",
                            ![h].pending = ActionResult(sess[h].state, TRUE, 0),
                            ![h].exitAfter = TRUE]
    /\ dlgOp' = [op |-> "loop"]
    /\ UNCHANGED <<store, calls, ending>>
    /\ UNCHANGED notDialog

\* The loop may select: it is at the top of an iteration in a live state.
AtSelect(h) ==
    /\ sess[h].loop = "select"
    /\ HasState(sess[h].state)
    /\ ~GetState(sess[h].state).Terminal

\* runDialogLoop, case <-ctx.Done(): return.
LoopCancelled(h) ==
    /\ AtSelect(h)
    /\ sess[h].cancelled
    /\ sess' = [sess EXCEPT ![h].loop = "done"]
    /\ dlgOp' = [op |-> "loop"]
    /\ UNCHANGED <<store, calls, ending>>
    /\ UNCHANGED notDialog

\* The session after the loop handled an event of the given kind sent by call
\* ev: on a match RecordTransition moves to the target and the result carries
\* the target; otherwise the result carries the current state.
AfterEvent(a, event, ev) ==
    LET nextState == EvaluateTransitions(GetState(a.state), event) IN
    IF nextState # ""
    THEN [a EXCEPT !.state = nextState, !.loop = "push", !.exitAfter = FALSE,
                   !.pending =
                      WithActions(ActionResult(nextState, GetState(nextState).Terminal, ev),
                                  TransitionActions(GetState(a.state), event)
                                     \o GetState(nextState).OnEnter)]
    ELSE [a EXCEPT !.loop = "push", !.exitAfter = FALSE,
                   !.pending = ActionResult(a.state, FALSE, ev)]

\* runDialogLoop, case <-as.speechCh: return when the channel is closed and
\* drained, otherwise evaluate the transitions for "speech".
LoopSpeech(h) ==
    /\ AtSelect(h)
    /\ IF sess[h].speechCh = <<>>
       THEN /\ sess[h].inputsClosed
            /\ sess' = [sess EXCEPT ![h].loop = "done"]
            /\ UNCHANGED calls
       ELSE /\ sess' = [sess EXCEPT ![h] =
                   AfterEvent([sess[h] EXCEPT !.speechCh = Tail(sess[h].speechCh)],
                              "speech", Head(sess[h].speechCh))]
            /\ calls' = MarkHandled(calls, Head(sess[h].speechCh), sess[h].state,
                                    EvaluateTransitions(GetState(sess[h].state), "speech"))
    /\ dlgOp' = [op |-> "loop"]
    /\ UNCHANGED <<store, ending>>
    /\ UNCHANGED notDialog

\* runDialogLoop, case <-as.dtmfCh: the same for "dtmf".
LoopDtmf(h) ==
    /\ AtSelect(h)
    /\ IF sess[h].dtmfCh = <<>>
       THEN /\ sess[h].inputsClosed
            /\ sess' = [sess EXCEPT ![h].loop = "done"]
            /\ UNCHANGED calls
       ELSE /\ sess' = [sess EXCEPT ![h] =
                   AfterEvent([sess[h] EXCEPT !.dtmfCh = Tail(sess[h].dtmfCh)],
                              "dtmf", Head(sess[h].dtmfCh))]
            /\ calls' = MarkHandled(calls, Head(sess[h].dtmfCh), sess[h].state,
                                    EvaluateTransitions(GetState(sess[h].state), "dtmf"))
    /\ dlgOp' = [op |-> "loop"]
    /\ UNCHANGED <<store, ending>>
    /\ UNCHANGED notDialog

\* runDialogLoop, case <-timeoutCh: the state has a positive timeout and it
\* fires; with a timeout_next the session moves there and a result is sent.
LoopTimeout(h) ==
    LET state == GetState(sess[h].state) IN
    /\ AtSelect(h)
    /\ state.Timeout > 0
    /\ state.TimeoutNext # ""
    /\ sess' = [sess EXCEPT
          ![h].state = state.TimeoutNext,
          ![h].loop = IF HasState(state.TimeoutNext) THEN "push" ELSE "select",
          ![h].exitAfter = FALSE,
          ![h].pending = IF HasState(state.TimeoutNext)
                         THEN WithActions(
                                 ActionResult(state.TimeoutNext,
                                              GetState(state.TimeoutNext).Terminal, 0),
                                 GetState(state.TimeoutNext).OnEnter)
                         ELSE sess[h].pending]
    /\ dlgOp' = [op |-> "loop"]
    /\ UNCHANGED <<store, calls, ending>>
    /\ UNCHANGED notDialog

\* runDialogLoop, as.resultCh <- result: blocks while the channel is full.
LoopPush(h) ==
    /\ sess[h].loop = "push"
    /\ Len(sess[h].resultCh) < ResultChCap
    /\ sess' = [sess EXCEPT
          ![h].resultCh = Append(sess[h].resultCh, sess[h].pending),
          ![h].pending = NoResult,
          ![h].exitAfter = FALSE,
          ![h].loop = IF sess[h].exitAfter THEN "done" ELSE "select"]
    /\ dlgOp' = [op |-> "loop"]
    /\ UNCHANGED <<store, calls, ending>>
    /\ UNCHANGED notDialog

\* SendEvent, up to the channel send: look the session up, read its state,
\* dispatch on the event type.
SendEventLookup(c, id, ev) ==
    LET h == store[id]
        res == IF h = 0 THEN "not-found"
               ELSE IF ev = "bogus" THEN "invalid-argument"
               ELSE "pending"
    IN /\ calls[c].pc = "idle"
       /\ \A d \in 1..(c - 1) : calls[d].pc # "idle"
       /\ IF res = "pending"
          THEN /\ calls' = [calls EXCEPT ![c] =
                      [pc |-> IF ev = "dtmf0" THEN "wait" ELSE "enqueue",
                       h |-> h, ev |-> ev, previousState |-> sess[h].state,
                       handled |-> NotHandled]]
               /\ dlgOp' = [op |-> "other"]
          ELSE /\ dlgOp' = [op |-> "SendEvent", call |-> c, res |-> res,
                             id |-> id, at |-> "lookup"]
               /\ UNCHANGED calls
       /\ UNCHANGED <<store, sess, ending>>
       /\ UNCHANGED notDialog

\* The input channel a call sends to, and its capacity.
InputCh(a, ev) == IF ev = "speech" THEN a.speechCh ELSE a.dtmfCh
InputCap(ev) == IF ev = "speech" THEN SpeechChCap ELSE DtmfChCap

\* SendEvent, the channel send succeeds (a send on a closed channel panics).
SendEventEnqueue(c) ==
    LET h == calls[c].h
        ev == calls[c].ev
    IN /\ calls[c].pc = "enqueue"
       /\ IF sess[h].inputsClosed
          THEN /\ calls' = [calls EXCEPT ![c] = IdleCall]
               /\ dlgOp' = [op |-> "SendEvent", call |-> c, res |-> "panic",
                             at |-> "return"]
               /\ UNCHANGED sess
          ELSE /\ Len(InputCh(sess[h], ev)) < InputCap(ev)
               /\ sess' = IF ev = "speech"
                          THEN [sess EXCEPT ![h].speechCh = Append(@, c)]
                          ELSE [sess EXCEPT ![h].dtmfCh = Append(@, c)]
               /\ calls' = [calls EXCEPT ![c].pc = "wait"]
               /\ dlgOp' = [op |-> "other"]
       /\ UNCHANGED <<store, ending>>
       /\ UNCHANGED notDialog

\* SendEvent, case <-time.After(5 s) of the channel send: the input channel
\* stayed full because the loop is not reading.
SendEventBusy(c) ==
    LET h == calls[c].h
        ev == calls[c].ev
    IN /\ calls[c].pc = "enqueue"
       /\ ~sess[h].inputsClosed
       /\ Len(InputCh(sess[h], ev)) >= InputCap(ev)
       /\ sess[h].loop = "done" \/ BlockedOnResult(h)
       /\ calls' = [calls EXCEPT ![c] = IdleCall]
       /\ dlgOp' = [op |-> "SendEvent", call |-> c, res |-> "resource-exhausted",
                 at |-> "return"]
       /\ UNCHANGED <<store, sess, ending>>
       /\ UNCHANGED notDialog

\* SendEvent, case result := <-as.resultCh: the call takes the result at the
\* head of the channel and returns it.
SendEventReceive(c) ==
    LET h == calls[c].h IN
    /\ calls[c].pc = "wait"
    /\ sess[h].resultCh # <<>>
    /\ sess' = [sess EXCEPT
                  ![h] = Orphan([sess[h] EXCEPT !.resultCh = Tail(sess[h].resultCh)], c)]
    /\ calls' = [calls EXCEPT ![c] = IdleCall]
    /\ dlgOp' = [op |-> "SendEvent", call |-> c, res |-> "ok", at |-> "return",
                 ev |-> calls[c].ev, handled |-> calls[c].handled,
                 previousState |-> calls[c].previousState,
                 result |-> Head(sess[h].resultCh)]
    /\ UNCHANGED <<store, ending>>
    /\ UNCHANGED notDialog

\* SendEvent, case <-time.After(10 s) of the wait: no result arrived and the
\* loop has nothing left to produce one from.
SendEventNoDeadline(c) ==
    /\ calls[c].pc = "wait"
    /\ FALSE
    /\ UNCHANGED vars
SendEventDeadline(c) ==
    LET h == calls[c].h IN
    /\ calls[c].pc = "wait"
    /\ sess[h].resultCh = <<>>
    /\ Quiescent(h)
    /\ calls' = [calls EXCEPT ![c] = IdleCall]
    /\ sess' = [sess EXCEPT ![h] = Orphan(sess[h], c)]
    /\ dlgOp' = [op |-> "SendEvent", call |-> c, res |-> "deadline-exceeded",
                 at |-> "return"]
    /\ UNCHANGED <<store, ending>>
    /\ UNCHANGED notDialog

\* delete(h.store.sessions, id)
StoreDeleteNothing(sessions, id) == sessions
StoreDelete(sessions, id) == [sessions EXCEPT ![id] = 0]

\* EndDialog up to as.cancel(): remove the session from the store and cancel
\* its context.
EndDialogLocked(id) ==
    LET h == store[id] IN
    /\ IF h = 0
       THEN /\ dlgOp' = [op |-> "EndDialog", res |-> "not-found", id |-> id,
                         at |-> "lookup"]
            /\ UNCHANGED <<store, sess, ending>>
       ELSE /\ store' = StoreDelete(store, id)
            /\ sess' = [sess EXCEPT ![h].cancelled = TRUE]
            /\ ending' = ending \cup {h}
            /\ dlgOp' = [op |-> "other"]
    /\ UNCHANGED calls
    /\ UNCHANGED notDialog

\* EndDialog, the rest: once the loop has signalled done, or 5 s have passed
\* with the loop stuck, close the input channels and return.
EndDialogClose(h) ==
    /\ h \in ending
    /\ sess[h].loop = "done" \/ BlockedOnResult(h)
    /\ sess' = [sess EXCEPT ![h].inputsClosed = TRUE]
    /\ ending' = ending \ {h}
    /\ dlgOp' = [op |-> "EndDialog", res |-> "ok", id |-> sess[h].id, h |-> h,
                 at |-> "return"]
    /\ UNCHANGED <<store, calls>>
    /\ UNCHANGED notDialog

\* GetSession: look the session up and return its current state and history.
GetSession(id) ==
    LET h == store[id] IN
    /\ dlgOp' = IF h = 0
                THEN [op |-> "GetSession", res |-> "not-found", id |-> id,
                      at |-> "lookup"]
                ELSE [op |-> "GetSession", res |-> "ok", id |-> id,
                      at |-> "lookup", currentState |-> sess[h].state]
    /\ UNCHANGED <<store, sess, calls, ending>>
    /\ UNCHANGED notDialog

\* reapStaleSessions: cancel and remove every stored session older than the
\* TTL, which are the stored sessions created up to some point.
reapStaleSessions(k) ==
    LET stale == {id \in SessionIds : store[id] # 0 /\ store[id] <= k} IN
    /\ stale # {}
    /\ store' = [id \in SessionIds |-> IF id \in stale THEN 0 ELSE store[id]]
    /\ sess' = [h \in DOMAIN sess |->
                  IF \E id \in stale : store[id] = h
                  THEN [sess[h] EXCEPT !.cancelled = TRUE] ELSE sess[h]]
    /\ dlgOp' = [op |-> "other"]
    /\ UNCHANGED <<calls, ending>>
    /\ UNCHANGED notDialog

NextDialog ==
    \/ \E id \in SessionIds, initial \in InitialStates : StartDialog(id, initial)
    \/ \E h \in DOMAIN sess : LoopTerminal(h)
    \/ \E h \in DOMAIN sess : LoopCancelled(h)
    \/ \E h \in DOMAIN sess : LoopSpeech(h)
    \/ \E h \in DOMAIN sess : LoopDtmf(h)
    \/ \E h \in DOMAIN sess : LoopTimeout(h)
    \/ \E h \in DOMAIN sess : LoopPush(h)
    \/ \E c \in DOMAIN calls, id \in SessionIds, ev \in EventTypes :
          SendEventLookup(c, id, ev)
    \/ \E c \in DOMAIN calls : SendEventEnqueue(c)
    \/ \E c \in DOMAIN calls : SendEventBusy(c)
    \/ \E c \in DOMAIN calls : SendEventReceive(c)
    \/ \E c \in DOMAIN calls : SendEventDeadline(c)
    \/ \E id \in SessionIds : EndDialogLocked(id)
    \/ \E h \in ending : EndDialogClose(h)
    \/ \E id \in SessionIds : GetSession(id)
    \/ \E k \in DOMAIN sess : reapStaleSessions(k)

(***************************************************************************)
(* Dialog sessions (pkg/dialog/session.go) and Engine.RunDialog            *)
(* (pkg/dialog/engine.go).                                                 *)
(***************************************************************************)

\* const DefaultMaxHistory
DefaultMaxHistory == 1000

\* StateRecord; the timestamp is left out, nothing reads it.
StateRecord(from, to, trigger) ==
    [FromState |-> from, ToState |-> to, Trigger |-> trigger]

\* Session.LastEvent is an `any`: nil, a string (speech text) or a rune (DTMF
\* digit, kept as its code point).
NilEvent == [kind |-> "nil", text |-> "", code |-> 0]
StringEvent(text) == [kind |-> "string", text |-> text, code |-> 0]
RuneEvent(code) == [kind |-> "rune", text |-> "", code |-> code]

\* fmt.Sprintf("%v", v): nil prints as <nil>, a string as itself, a rune as
\* the decimal number of its code point.
Sprintv(v) ==
    IF v.kind = "nil" THEN "<nil>"
    ELSE IF v.kind = "string" THEN v.text
    ELSE ToString(v.code)

\* NewSession
NewSession(id, dialogName, initialState) ==
    [ID |-> id, DialogName |-> dialogName, CurrentState |-> initialState,
     History |-> <<>>, LastEvent |-> NilEvent, maxHistory |-> DefaultMaxHistory]

\* RecordTransition, the number of oldest records dropped at the cap.
EvictCountOne(maxHistory) == 1
EvictCount(maxHistory) ==
    IF maxHistory \div 10 < 1 THEN 1 ELSE maxHistory \div 10

\* s.History[evict:]
DropOldest(history, evict) == SubSeq(history, evict + 1, Len(history))

\* Session.RecordTransition
RecordTransition(s, from, to, trigger) ==
    LET kept == IF Len(s.History) >= s.maxHistory
                THEN DropOldest(s.History, EvictCount(s.maxHistory))
                ELSE s.History
    IN [s EXCEPT !.History = Append(kept, StateRecord(from, to, trigger)),
                 !.CurrentState = to]

\* Session.SetLastEvent
SetLastEvent(s, event) == [s EXCEPT !.LastEvent = event]

\* A session that has looped n times on one state, each time on a speech
\* event whose text is the number of the event.
LoopedHistory(n) ==
    [i \in 1..n |-> StateRecord("greeting", "greeting", ToString(i))]

LoopedSession(n) ==
    [NewSession("s1", "test_dialog", "greeting") EXCEPT !.History = LoopedHistory(n)]

\* History lengths a session starts from: near empty and near the cap.
HistoryLengths ==
    (0..HistSlack) \cup ((DefaultMaxHistory - HistSlack)..DefaultMaxHistory)

\* The targets and triggers RecordTransition is called with.
RecordTargets == {"greeting", "goodbye"}
RecordTriggers == {"timeout", "hi"}

SessionInit(lengths) ==
    /\ session \in {LoopedSession(n) : n \in lengths}
    /\ sessOp = [op |-> "none", n |-> 0]

\* One call of RecordTransition by the owner of the session, which passes the
\* current state as from.
Record(to, trigger) ==
    /\ sessOp.n < MaxRecords
    /\ session' = RecordTransition(session, session.CurrentState, to, trigger)
    /\ sessOp' = [op |-> "RecordTransition", n |-> sessOp.n + 1,
                  before |-> session, to |-> to, trigger |-> trigger]
    /\ UNCHANGED <<eng, engOp>>
    /\ UNCHANGED notEngine

\* CopyHistory: a snapshot of the history; the session is left as it is.
CopyHistory ==
    /\ sessOp.op # "CopyHistory"
    /\ sessOp' = [op |-> "CopyHistory", n |-> sessOp.n,
                  snapshot |-> session.History]
    /\ UNCHANGED <<session, eng, engOp>>
    /\ UNCHANGED notEngine

NextSession ==
    \/ \E to \in RecordTargets, trigger \in RecordTriggers : Record(to, trigger)
    \/ CopyHistory

\* The dialogs the engine runs: the sample dialog ("test-dialog") and the
\* timeout dialog ("timeout-test") of the engine tests.  A condition is "" or
\* the name of its template; a timeout is positive when the state sets one.
EngineDialogs ==
    [test_dialog |->
        [InitialState |-> "greeting",
         States |->
            [greeting |->
                [OnEnter |-> <<"play_tts">>,
                 Transitions |->
                    <<[Event |-> "speech", Condition |-> "", Target |-> "process",
                       Actions |-> <<>>],
                      [Event |-> "dtmf", Condition |-> "event-is-1",
                       Target |-> "menu", Actions |-> <<>>]>>,
                 Timeout |-> 10, TimeoutNext |-> "goodbye", Terminal |-> FALSE],
             process |->
                [OnEnter |-> <<>>,
                 Transitions |->
                    <<[Event |-> "hook_result", Condition |-> "",
                       Target |-> "respond", Actions |-> <<>>]>>,
                 Timeout |-> 0, TimeoutNext |-> "", Terminal |-> FALSE],
             respond |->
                [OnEnter |-> <<>>,
                 Transitions |->
                    <<[Event |-> "tts_complete", Condition |-> "",
                       Target |-> "greeting", Actions |-> <<>>]>>,
                 Timeout |-> 0, TimeoutNext |-> "", Terminal |-> FALSE],
             menu |->
                [OnEnter |-> <<>>,
                 Transitions |->
                    <<[Event |-> "speech", Condition |-> "", Target |-> "process",
                       Actions |-> <<>>]>>,
                 Timeout |-> 0, TimeoutNext |-> "", Terminal |-> FALSE],
             goodbye |->
                [OnEnter |-> <<>>, Transitions |-> <<>>,
                 Timeout |-> 0, TimeoutNext |-> "", Terminal |-> TRUE]]],
     timeout_test |->
        [InitialState |-> "start",
         States |->
            [start |->
                [OnEnter |-> <<>>, Transitions |-> <<>>,
                 Timeout |-> 1, TimeoutNext |-> "end", Terminal |-> FALSE],
             end |->
                [OnEnter |-> <<>>, Transitions |-> <<>>,
                 Timeout |-> 0, TimeoutNext |-> "", Terminal |-> TRUE]]]]

\* The dialog names RunDialog is called with; the last is not registered.
DialogNames == {"test_dialog", "timeout_test", "nonexistent"}

\* The initial state a test creates its session in.
InitialStateOf(name) ==
    IF name \in DOMAIN EngineDialogs THEN EngineDialogs[name].InitialState
    ELSE "start"

\* StateMachine.GetState on the dialog of that name.
HasStateIn(name, state) == state \in DOMAIN EngineDialogs[name].States
GetStateIn(name, state) == EngineDialogs[name].States[state]

\* Text that is trimmed or compared letter by letter is kept as the sequence
\* of its characters.
TextTrue == <<"t", "r", "u", "e">>
TextFalse == <<"f", "a", "l", "s", "e">>
TextNoValue == <<"<", "n", "o", " ", "v", "a", "l", "u", "e", ">">>
WhiteSpace == {" ", "\t", "\n", "\r"}

\* strings.TrimSpace
RECURSIVE TrimLeft(_)
TrimLeft(text) ==
    IF text # <<>> /\ Head(text) \in WhiteSpace THEN TrimLeft(Tail(text)) ELSE text

RECURSIVE TrimRight(_)
TrimRight(text) ==
    IF text # <<>> /\ text[Len(text)] \in WhiteSpace
    THEN TrimRight(SubSeq(text, 1, Len(text) - 1)) ELSE text

TrimSpace(text) == TrimRight(TrimLeft(text))

\* The condition templates of the dialogs, by name:
\*   "event-is-1"    {{ eq (printf "%c" .Event) "1" }}
\*   "yes"           the text " yes " between spaces
\*   "blank"         spaces and a tab only
\*   "padded-false"  {{ false }} followed by a newline
\*   "result-x"      {{ .Result.x }}, a key the last result does not have
\*   "bad"           {{ .Event.Foo }}, which cannot be evaluated
DigitOne == 49
DigitTwo == 50
Conditions == {"", "event-is-1", "yes", "blank", "padded-false", "result-x", "bad"}

\* renderTemplate: the text the template renders to for the session, or an
\* error.
Rendered(text) == [err |-> FALSE, text |-> text]
RenderError == [err |-> TRUE, text |-> <<>>]

renderTemplate(tmplStr, s) ==
    IF tmplStr = "event-is-1"
    THEN Rendered(IF s.LastEvent.kind = "rune" /\ s.LastEvent.code = DigitOne
                  THEN TextTrue ELSE TextFalse)
    ELSE IF tmplStr = "yes" THEN Rendered(<<" ", "y", "e", "s", " ">>)
    ELSE IF tmplStr = "blank" THEN Rendered(<<" ", "\t", " ">>)
    ELSE IF tmplStr = "padded-false" THEN Rendered(TextFalse \o <<"\n">>)
    ELSE IF tmplStr = "result-x" THEN Rendered(TextNoValue)
    ELSE RenderError

\* EvalCondition: whether the condition matches, and whether rendering it
\* failed.
MatchesUnlessFalse(result) == result # <<>> /\ result # TextFalse
Matches(result) ==
    result # <<>> /\ result # TextFalse /\ result # TextNoValue

EvalConditionResult(condition, s) ==
    IF condition = "" THEN [match |-> TRUE, err |-> FALSE]
    ELSE LET r == renderTemplate(condition, s) IN
         IF r.err THEN [match |-> FALSE, err |-> TRUE]
         ELSE [match |-> Matches(TrimSpace(r.text)), err |-> FALSE]

EvalConditionOn(condition, s) == EvalConditionResult(condition, s).match

\* StateMachine.EvaluateTransitions: the target and the actions of the first
\* transition, in declaration order, for the event whose condition matches;
\* Target "" when none; an error as soon as a condition fails to render.
NoTransition == [Target |-> "", Actions |-> <<>>, err |-> FALSE]
TransitionError == [Target |-> "", Actions |-> <<>>, err |-> TRUE]

RECURSIVE FirstTransition(_, _, _, _)
FirstTransition(ts, i, event, s) ==
    IF i > Len(ts) THEN NoTransition
    ELSE IF ts[i].Event # event THEN FirstTransition(ts, i + 1, event, s)
    ELSE IF EvalConditionResult(ts[i].Condition, s).err THEN TransitionError
    ELSE IF EvalConditionResult(ts[i].Condition, s).match
    THEN [Target |-> ts[i].Target, Actions |-> ts[i].Actions, err |-> FALSE]
    ELSE FirstTransition(ts, i + 1, event, s)

EvaluateTransitionsOn(state, event, s) == FirstTransition(state.Transitions, 1, event, s)

\* The inputs of a run: speech results and DTMF digits.
ASRResults == [Text : {"hi"}, IsFinal : BOOLEAN]
Digits == {DigitOne, DigitTwo}

\* RunDialog before its first statement: its local state, the channels and
\* context it was handed, and whether it has read any event yet.
NewRun ==
    [pc |-> "start", state |-> "", ret |-> "", spoken |-> <<>>,
     speechOpen |-> TRUE, dtmfOpen |-> TRUE, ctxDone |-> FALSE,
     received |-> FALSE]

EngineInit(names) ==
    /\ \E name \in names :
          session = NewSession("s1", name, InitialStateOf(name))
    /\ sessOp = [op |-> "none", n |-> 0]
    /\ eng = NewRun
    /\ engOp = [op |-> "none"]

EngineIdle ==
    /\ session = NewSession("s1", "test_dialog", "greeting")
    /\ sessOp = [op |-> "none", n |-> 0]
    /\ eng = NewRun
    /\ engOp = [op |-> "none"]

\* executeActions: play_tts hands its text to speakFn, which records it.
RECURSIVE executeActions(_, _)
executeActions(spoken, actions) ==
    IF actions = <<>> THEN spoken
    ELSE executeActions(IF Head(actions) = "play_tts"
                        THEN Append(spoken, Head(actions)) ELSE spoken,
                        Tail(actions))

\* RunDialog up to the loop: look the dialog and the current state up, run
\* the on_enter actions of the current state.
RunDialogStart ==
    LET name == session.DialogName IN
    /\ eng.pc = "start"
    /\ IF name \notin DOMAIN EngineDialogs \/ ~HasStateIn(name, session.CurrentState)
       THEN eng' = [eng EXCEPT !.pc = "done", !.ret = "error"]
       ELSE eng' = [eng EXCEPT
               !.pc = "select", !.state = session.CurrentState,
               !.spoken = executeActions(eng.spoken,
                             GetStateIn(name, session.CurrentState).OnEnter)]
    /\ engOp' = [op |-> "start"]
    /\ UNCHANGED <<session, sessOp>>
    /\ UNCHANGED notEngine

\* Engine.transition with the trigger it records: move the session to target,
\* look target up, run its on_enter actions.  The pair is the session and the
\* run afterwards; the loop returns when target is terminal or missing.
TriggerOf(s) == Sprintv(s.LastEvent)

transition(s, run, target) ==
    LET name == s.DialogName
        s2 == RecordTransition(s, s.CurrentState, target, TriggerOf(s))
    IN IF ~HasStateIn(name, target)
       THEN <<s2, [run EXCEPT !.pc = "done", !.ret = "error"]>>
       ELSE <<s2, [run EXCEPT
                     !.state = target,
                     !.spoken = executeActions(run.spoken,
                                               GetStateIn(name, target).OnEnter),
                     !.pc = IF GetStateIn(name, target).Terminal
                            THEN "done" ELSE "select",
                     !.ret = IF GetStateIn(name, target).Terminal
                             THEN "nil" ELSE ""]>>

\* The bottom of an iteration that made no transition: return when the state
\* is terminal.
AfterSelect(run, name) ==
    IF GetStateIn(name, run.state).Terminal
    THEN [run EXCEPT !.pc = "done", !.ret = "nil"]
    ELSE run

\* The session and the run after an event of the given kind was stored as the
\* last event: evaluate the transitions, run the actions of the one that
\* matches and move.
AfterEngineEvent(s, run, event) ==
    LET name == s.DialogName
        t == EvaluateTransitionsOn(GetStateIn(name, run.state), event, s)
    IN IF t.err THEN <<s, [run EXCEPT !.pc = "done", !.ret = "error"]>>
       ELSE IF t.Target # ""
       THEN transition(s, [run EXCEPT !.spoken = executeActions(run.spoken, t.Actions)],
                       t.Target)
       ELSE <<s, AfterSelect(run, name)>>

\* case <-ctx.Done(): return ctx.Err()
EngineCancelled ==
    /\ eng.pc = "select"
    /\ eng.ctxDone
    /\ eng' = [eng EXCEPT !.pc = "done", !.ret = "ctx"]
    /\ engOp' = [op |-> "return"]
    /\ UNCHANGED <<session, sessOp>>
    /\ UNCHANGED notEngine

\* case result, ok := <-speechCh with ok: a result that is not final is
\* skipped, a final one is the last event and is evaluated as "speech".
EngineSpeech(result) ==
    LET after == AfterEngineEvent(SetLastEvent(session, StringEvent(result.Text)),
                                  [eng EXCEPT !.received = TRUE], "speech")
    IN /\ eng.pc = "select"
       /\ eng.speechOpen
       /\ IF ~result.IsFinal
          THEN /\ eng' = [eng EXCEPT !.received = TRUE]
               /\ UNCHANGED session
          ELSE /\ session' = after[1]
               /\ eng' = after[2]
       /\ engOp' = [op |-> "speech"]
       /\ UNCHANGED sessOp
       /\ UNCHANGED notEngine

\* case digit, ok := <-dtmfCh with ok: the digit is the last event and is
\* evaluated as "dtmf".
EngineDtmf(digit) ==
    LET after == AfterEngineEvent(SetLastEvent(session, RuneEvent(digit)),
                                  [eng EXCEPT !.received = TRUE], "dtmf")
    IN /\ eng.pc = "select"
       /\ eng.dtmfOpen
       /\ session' = after[1]
       /\ eng' = after[2]
       /\ engOp' = [op |-> "dtmf"]
       /\ UNCHANGED sessOp
       /\ UNCHANGED notEngine

\* case <-speechCh or <-dtmfCh with !ok: the channel is closed, return nil.
EngineChannelClosed ==
    /\ eng.pc = "select"
    /\ ~eng.speechOpen \/ ~eng.dtmfOpen
    /\ eng' = [eng EXCEPT !.pc = "done", !.ret = "nil"]
    /\ engOp' = [op |-> "return"]
    /\ UNCHANGED <<session, sessOp>>
    /\ UNCHANGED notEngine

\* case <-timeoutCh: the state has a positive timeout and it fires; with a
\* timeout_next the session moves there.
EngineTimeout ==
    LET name == session.DialogName
        state == GetStateIn(name, eng.state)
        after == IF state.TimeoutNext # ""
                 THEN transition(session, eng, state.TimeoutNext)
                 ELSE <<session, AfterSelect(eng, name)>>
    IN /\ eng.pc = "select"
       /\ state.Timeout > 0
       /\ session' = after[1]
       /\ eng' = after[2]
       /\ engOp' = [op |-> "timeout", from |-> eng.state,
                    to |-> state.TimeoutNext]
       /\ UNCHANGED sessOp
       /\ UNCHANGED notEngine

\* The caller of RunDialog closes the speech channel.
CloseSpeechCh ==
    /\ eng.speechOpen
    /\ eng' = [eng EXCEPT !.speechOpen = FALSE]
    /\ engOp' = [op |-> "caller"]
    /\ UNCHANGED <<session, sessOp>>
    /\ UNCHANGED notEngine

\* The caller of RunDialog closes the DTMF channel.
CloseDtmfCh ==
    /\ eng.dtmfOpen
    /\ eng' = [eng EXCEPT !.dtmfOpen = FALSE]
    /\ engOp' = [op |-> "caller"]
    /\ UNCHANGED <<session, sessOp>>
    /\ UNCHANGED notEngine

\* The context of the run is cancelled or its deadline passes.
CancelRunCtx ==
    /\ ~eng.ctxDone
    /\ eng' = [eng EXCEPT !.ctxDone = TRUE]
    /\ engOp' = [op |-> "caller"]
    /\ UNCHANGED <<session, sessOp>>
    /\ UNCHANGED notEngine

NextEngine ==
    \/ RunDialogStart
    \/ EngineCancelled
    \/ \E result \in ASRResults : EngineSpeech(result)
    \/ \E digit \in Digits : EngineDtmf(digit)
    \/ EngineChannelClosed
    \/ EngineTimeout
    \/ CloseSpeechCh
    \/ CloseDtmfCh
    \/ CancelRunCtx

(***************************************************************************)
(* Dialog definitions (pkg/dialog): StateMachine.EvaluateTransitions as a  *)
(* function of a state's transitions, the event and the session.           *)
(***************************************************************************)
TransitionEvents == {"speech", "dtmf"}
TransitionTargets == {"process", "goodbye"}
ActionLists == {<<>>, <<"play_tts">>}
IncomingEvents == {"speech", "dtmf", "unknown_event"}
LastEvents == {NilEvent, RuneEvent(DigitOne), RuneEvent(DigitTwo)}

TransitionsDeclared ==
    [Event : TransitionEvents, Condition : Conditions,
     Target : TransitionTargets, Actions : ActionLists]

TransitionLists == UNION {[1..n -> TransitionsDeclared] : n \in 0..MaxTransitions}

\* The session a condition is evaluated on.
SessionWith(lastEvent) ==
    SetLastEvent(NewSession("s1", "test_dialog", "greeting"), lastEvent)

NoDirectory == [f \in {} |-> ""]

EvaluateInit ==
    /\ evalArgs \in [ts : TransitionLists, event : IncomingEvents, last : LastEvents]
    /\ files = NoDirectory
    /\ dialogs = NoDirectory
    /\ fsmOp = [op |-> "none"]

FSMIdle ==
    /\ evalArgs = [ts |-> <<>>, event |-> "speech", last |-> NilEvent]
    /\ files = NoDirectory
    /\ dialogs = NoDirectory
    /\ fsmOp = [op |-> "none"]

\* A call of EvaluateTransitions on a state with the transitions drawn.
CallEvaluateTransitions ==
    /\ fsmOp.op = "none"
    /\ fsmOp' = [op |-> "EvaluateTransitions",
                 result |-> EvaluateTransitionsOn([Transitions |-> evalArgs.ts],
                                                  evalArgs.event,
                                                  SessionWith(evalArgs.last))]
    /\ UNCHANGED <<evalArgs, files, dialogs, notFSM>>

NextEvaluate == CallEvaluateTransitions

(***************************************************************************)
(* Dialog definitions (pkg/dialog): StateMachine.Validate and the Loader.  *)
(***************************************************************************)
\* The dialogs a file can declare: state a with one transition and perhaps a
\* timeout_next, perhaps a state b without transitions, and an initial_state.
\* The name b stands for a state that is missing when b is not declared.
StateOf(target, timeoutNext) ==
    [Transitions |-> <<[Target |-> target]>>, TimeoutNext |-> timeoutNext]
StateB == [Transitions |-> <<>>, TimeoutNext |-> ""]

DialogsDeclared ==
    {[Name |-> "", InitialState |-> initial, States |-> states] :
        initial \in {"", "a", "b"},
        states \in {[a |-> StateOf(target, timeoutNext)] :
                        target \in {"", "a", "b"}, timeoutNext \in {"", "b"}}
                   \cup {[a |-> StateOf(target, timeoutNext), b |-> StateB] :
                        target \in {"", "a", "b"}, timeoutNext \in {"", "b"}}}

\* What a file holds: YAML that declares a dialog, or text yaml.Unmarshal
\* rejects.
YAMLOf(d) == [parses |-> TRUE, d |-> d]
NotYAML ==
    [parses |-> FALSE,
     d |-> [Name |-> "", InitialState |-> "", States |-> [a |-> StateOf("", "")]]]
Contents == {YAMLOf(d) : d \in DialogsDeclared} \cup {NotYAML}

\* The files of the directory in the order of os.ReadDir (by name), and
\* filepath.Ext of each.
YAMLFiles == [i \in 1..MaxFiles |-> "f" \o ToString(i) \o ".yaml"]
DirEntries == YAMLFiles \o <<"notes.txt">>
Ext(name) == IF name = "notes.txt" THEN ".txt" ELSE ".yaml"
EntryNames == {DirEntries[i] : i \in 1..Len(DirEntries)}

Directories ==
    {dir \in UNION {[names -> Contents] : names \in SUBSET EntryNames} :
        "notes.txt" \in DOMAIN dir => dir["notes.txt"] = NotYAML}

\* StateMachine.Validate: whether it returns an error.
TransitionInvalid(d, t) == t.Target = "" \/ t.Target \notin DOMAIN d.States
StateInvalidTransitionsOnly(d, state) ==
    \E i \in 1..Len(state.Transitions) : TransitionInvalid(d, state.Transitions[i])
StateInvalid(d, state) ==
    \/ \E i \in 1..Len(state.Transitions) : TransitionInvalid(d, state.Transitions[i])
    \/ state.TimeoutNext # "" /\ state.TimeoutNext \notin DOMAIN d.States

Validate(d) ==
    IF d.InitialState = "" THEN TRUE
    ELSE IF d.InitialState \notin DOMAIN d.States THEN TRUE
    ELSE \E name \in DOMAIN d.States : StateInvalid(d, d.States[name])

\* Loader.loadFile: the dialog, named after the file when it has no name, or
\* an error.
loadFile(path, content) ==
    IF ~content.parses THEN [err |-> TRUE, sm |-> content.d]
    ELSE LET d == IF content.d.Name = "" THEN [content.d EXCEPT !.Name = path]
                  ELSE content.d
         IN [err |-> Validate(d), sm |-> d]

\* Loader.LoadAll on the directory: the map built from entry i on, or an
\* error at the first file that does not load.
RECURSIVE LoadFrom(_, _, _)
LoadFrom(dir, i, result) ==
    IF i > Len(DirEntries) THEN [err |-> FALSE, result |-> result]
    ELSE LET name == DirEntries[i] IN
         IF name \notin DOMAIN dir THEN LoadFrom(dir, i + 1, result)
         ELSE IF Ext(name) # ".yaml" /\ Ext(name) # ".yml"
         THEN LoadFrom(dir, i + 1, result)
         ELSE LET loaded == loadFile(name, dir[name]) IN
              IF loaded.err THEN [err |-> TRUE, result |-> NoDirectory]
              ELSE LoadFrom(dir, i + 1,
                            [n \in DOMAIN result \cup {loaded.sm.Name} |->
                                IF n = loaded.sm.Name THEN loaded.sm ELSE result[n]])

LoaderInit ==
    /\ files \in Directories
    /\ dialogs = NoDirectory
    /\ fsmOp = [op |-> "none", writes |-> 0]
    /\ evalArgs = [ts |-> <<>>, event |-> "speech", last |-> NilEvent]

\* Loader.LoadAll, at startup or from WatchAndReload after a write: the map
\* replaces Loader.dialogs only when every file loaded.
LoadAll ==
    LET r == LoadFrom(files, 1, NoDirectory) IN
    /\ dialogs' = IF r.err THEN dialogs ELSE r.result
    /\ fsmOp' = [op |-> "LoadAll", writes |-> fsmOp.writes, err |-> r.err]
    /\ UNCHANGED <<evalArgs, files, notFSM>>

\* Somebody writes a dialog file of the directory.
WriteFile(name, content) ==
    /\ fsmOp.writes < MaxWrites
    /\ files' = [n \in DOMAIN files \cup {name} |->
                    IF n = name THEN content ELSE files[n]]
    /\ fsmOp' = [op |-> "WriteFile", writes |-> fsmOp.writes + 1]
    /\ UNCHANGED <<evalArgs, dialogs, notFSM>>

\* Loader.Get, by which the services find the dialog to run.
LoaderGet(name) ==
    /\ fsmOp' = [op |-> "Get", writes |-> fsmOp.writes, name |-> name,
                 ok |-> name \in DOMAIN dialogs]
    /\ UNCHANGED <<evalArgs, files, dialogs, notFSM>>

NextLoader ==
    \/ LoadAll
    \/ \E i \in 1..MaxFiles, content \in Contents : WriteFile(YAMLFiles[i], content)
    \/ \E i \in 1..MaxFiles : LoaderGet(YAMLFiles[i])

(***************************************************************************)
(* Event publisher (pkg/events) and dead-letter replay (pkg/webhook/api,   *)
(* internal/integration/handler).  One Emit call and one replay request    *)
(* are in flight at a time; subscribers come, go and read at any moment.   *)
(***************************************************************************)
SubscriberIds == {"sub1", "sub2"}
DefaultBufSize == 64
BufSizes == 0..MaxBufSize

EventTypeNames == {"call.started", "webhook.test"}
SessionIDs == {"", "s1"}
\* The JSON texts an event carries as data.
DataTexts == {"null", "{}"}

\* The events the services emit: <<type, session id, data>>.
ServiceEvents == {<<"webhook.test", "", "{}">>}

\* make(chan Envelope, bufSize) after Subscribe's default, and a missing map
\* entry.
NoChannel == [open |-> FALSE, cap |-> 0, buf |-> <<>>]
MakeChannel(bufSize) ==
    [open |-> TRUE, cap |-> IF bufSize <= 0 THEN DefaultBufSize ELSE bufSize,
     buf |-> <<>>]

\* json.Marshal of an envelope (the payload of a dead letter) and
\* json.Unmarshal of a payload; a payload that is not JSON does not parse.
MarshalEnvelope(env) ==
    [parses |-> TRUE,
     doc |-> [id |-> env.ID, type |-> env.Type, source |-> env.Source,
              session_id |-> env.SessionID, data |-> env.Data]]
UnmarshalEnvelope(payload) ==
    [err |-> ~payload.parses,
     env |-> [ID |-> payload.doc.id, Type |-> payload.doc.type,
              Source |-> payload.doc.source, SessionID |-> payload.doc.session_id,
              Data |-> payload.doc.data]]

\* The envelopes the deliverer dead-lettered: emitted by the dialog service
\* before any Emit of this publisher.
OriginalEnvelopes ==
    [ID : {0}, Type : EventTypeNames, Source : {"dialog"}, SessionID : SessionIDs,
     Data : DataTexts]
CorruptPayload ==
    [parses |-> FALSE,
     doc |-> [id |-> 0, type |-> "", source |-> "", session_id |-> "", data |-> ""]]
Payloads == {MarshalEnvelope(env) : env \in OriginalEnvelopes} \cup {CorruptPayload}

DeadLetterIds == {"d1"}
WebhookIds == {"w1", "w2"}
DeadLetterRows == [WebhookID : {"w1"}, Payload : Payloads, Replayable : BOOLEAN]

NoEmit(n) == [pc |-> "idle", n |-> n]
NoReplay == [pc |-> "idle"]

EventsInit ==
    /\ subscribers = [id \in SubscriberIds |-> NoChannel]
    /\ emit = NoEmit(0)
    /\ published = <<>>
    /\ letters \in [DeadLetterIds -> DeadLetterRows]
    /\ replay = NoReplay
    /\ evOp = [op |-> "none"]

EventsIdle ==
    /\ subscribers = [id \in SubscriberIds |-> NoChannel]
    /\ emit = NoEmit(0)
    /\ published = <<>>
    /\ letters = [id \in DeadLetterIds |->
                     [WebhookID |-> "w1", Payload |-> CorruptPayload, Replayable |-> TRUE]]
    /\ replay = NoReplay
    /\ evOp = [op |-> "none"]

\* Publisher.Emit up to p.subMu.RLock: the envelope is built (a fresh id, the
\* publisher's source) and the subscribers to fan out to are those in the map.
EmitCall(caller, eventType, sessionID, data) ==
    [pc |-> "fanout", n |-> emit.n + 1, caller |-> caller,
     envelope |-> [ID |-> emit.n + 1, Type |-> eventType, Source |-> "integration",
                   SessionID |-> sessionID, Data |-> data],
     todo |-> {id \in SubscriberIds : subscribers[id].open},
     sent |-> {}, dropped |-> {}]

\* Some service emits an event.
Emit(eventType, sessionID, data) ==
    /\ emit.pc = "idle"
    /\ emit.n < MaxEmits
    /\ emit' = EmitCall("service", eventType, sessionID, data)
    /\ UNCHANGED <<subscribers, published, letters, replay, evOp>>
    /\ UNCHANGED notEvents

\* select { case ch <- envelope: default: }: the send is ready when the
\* channel has room, and the select always completes.
HasRoom(ch) == Len(ch.buf) < ch.cap
SelectCompletesWithRoom(ch) == HasRoom(ch)
SelectCompletes(ch) == TRUE

\* One round of Emit's loop over the subscribers, in the order the map
\* yields them.
EmitSend(id) ==
    /\ emit.pc = "fanout"
    /\ id \in emit.todo
    /\ SelectCompletes(subscribers[id])
    /\ IF HasRoom(subscribers[id])
       THEN /\ subscribers' = [subscribers EXCEPT ![id].buf = Append(@, emit.envelope)]
            /\ emit' = [emit EXCEPT !.todo = @ \ {id}, !.sent = @ \cup {id}]
       ELSE /\ emit' = [emit EXCEPT !.todo = @ \ {id}, !.dropped = @ \cup {id}]
            /\ UNCHANGED subscribers
    /\ UNCHANGED <<published, letters, replay, evOp>>
    /\ UNCHANGED notEvents

\* ReplayDeadLetter after Emit returned: with an error the handler returns
\* it, otherwise it goes on to MarkDeadLetterReplayed.
GoesOnAlways(emitErr) == TRUE
GoesOn(emitErr) == ~emitErr

\* The end of Emit: p.subMu.RUnlock and queueMgr.Publish, which succeeds or
\* fails; Emit returns to the service or to the replay handler.
EmitPublish(ok) ==
    /\ emit.pc = "fanout"
    /\ emit.todo = {}
    /\ published' = IF ok THEN Append(published, emit.envelope) ELSE published
    /\ emit' = NoEmit(emit.n)
    /\ IF emit.caller = "service"
       THEN /\ evOp' = [op |-> "Emit", err |-> ~ok, envelope |-> emit.envelope,
                        sent |-> emit.sent, dropped |-> emit.dropped]
            /\ UNCHANGED replay
       ELSE IF GoesOn(~ok)
       THEN /\ replay' = [replay EXCEPT !.pc = "mark", !.envelope = emit.envelope]
            /\ UNCHANGED evOp
       ELSE /\ replay' = NoReplay
            /\ evOp' = [op |-> "Replay", res |-> "re-publish failed",
                        dlid |-> replay.dlid, before |-> replay.before,
                        envelope |-> emit.envelope]
    /\ UNCHANGED <<subscribers, letters>>
    /\ UNCHANGED notEvents

\* Publisher.Subscribe and Unsubscribe, which wait for Emit's read lock.
Subscribe(id, bufSize) ==
    /\ emit.pc = "idle"
    /\ subscribers' = [subscribers EXCEPT ![id] = MakeChannel(bufSize)]
    /\ UNCHANGED <<emit, published, letters, replay, evOp>>
    /\ UNCHANGED notEvents

PublisherUnsubscribe(id) ==
    /\ emit.pc = "idle"
    /\ subscribers[id].open
    /\ subscribers' = [subscribers EXCEPT ![id] = NoChannel]
    /\ UNCHANGED <<emit, published, letters, replay, evOp>>
    /\ UNCHANGED notEvents

\* A subscriber takes the oldest envelope off its channel.
SubscriberReceive(id) ==
    /\ subscribers[id].open
    /\ subscribers[id].buf # <<>>
    /\ subscribers' = [subscribers EXCEPT ![id].buf = Tail(@)]
    /\ UNCHANGED <<emit, published, letters, replay, evOp>>
    /\ UNCHANGED notEvents

\* The row ReplayDeadLetter works on: the integration service reads it by
\* id (GetDeadLetterByID), the webhook API looks it up among the replayable
\* dead letters of the webhook (ListDeadLetters).
FoundBy(handler, webhookID, dlid) ==
    /\ dlid \in DOMAIN letters
    /\ handler = "api" => letters[dlid].WebhookID = webhookID /\ letters[dlid].Replayable

\* ReplayDeadLetter up to its call of Emit.
ReplayDeadLetter(handler, webhookID, dlid) ==
    /\ replay.pc = "idle"
    /\ emit.pc = "idle"
    /\ emit.n < MaxEmits
    /\ IF ~FoundBy(handler, webhookID, dlid)
       THEN /\ evOp' = [op |-> "Replay", res |-> "not found", dlid |-> dlid]
            /\ UNCHANGED <<emit, replay>>
       ELSE LET parsed == UnmarshalEnvelope(letters[dlid].Payload) IN
            IF parsed.err
            THEN /\ evOp' = [op |-> "Replay", res |-> "corrupt", dlid |-> dlid]
                 /\ UNCHANGED <<emit, replay>>
            ELSE /\ emit' = EmitCall("replay", parsed.env.Type, parsed.env.SessionID,
                                     parsed.env.Data)
                 /\ replay' = [pc |-> "emit", handler |-> handler, dlid |-> dlid,
                               before |-> letters[dlid],
                               envelope |-> parsed.env]
                 /\ UNCHANGED evOp
    /\ UNCHANGED <<subscribers, published, letters>>
    /\ UNCHANGED notEvents

\* The end of ReplayDeadLetter: MarkDeadLetterReplayed, which the database
\* carries out or fails.
ReplayMark(dbOK) ==
    /\ replay.pc = "mark"
    /\ letters' = IF dbOK /\ replay.dlid \in DOMAIN letters
                  THEN [letters EXCEPT ![replay.dlid].Replayable = FALSE]
                  ELSE letters
    /\ evOp' = [op |-> "Replay", res |-> IF dbOK THEN "ok" ELSE "mark failed",
                dlid |-> replay.dlid, before |-> replay.before,
                envelope |-> replay.envelope]
    /\ replay' = NoReplay
    /\ UNCHANGED <<subscribers, emit, published>>
    /\ UNCHANGED notEvents

NextEvents ==
    \/ \E e \in ServiceEvents : Emit(e[1], e[2], e[3])
    \/ \E id \in SubscriberIds : EmitSend(id)
    \/ \E ok \in BOOLEAN : EmitPublish(ok)
    \/ \E id \in SubscriberIds, bufSize \in BufSizes : Subscribe(id, bufSize)
    \/ \E id \in SubscriberIds : PublisherUnsubscribe(id)
    \/ \E id \in SubscriberIds : SubscriberReceive(id)
    \/ \E handler \in {"api", "integration"}, webhookID \in WebhookIds,
          dlid \in DeadLetterIds \cup {"d9"} :
          ReplayDeadLetter(handler, webhookID, dlid)
    \/ \E dbOK \in BOOLEAN : ReplayMark(dbOK)

(***************************************************************************)
(* The orchestration pipeline (internal/runtime/orchestrator.go).          *)
(*                                                                         *)
(* One HandleNewRoom run for a (room, peer) pair.  The run is followed     *)
(* from its first RPC to its return.  Go runs the deferred calls of a      *)
(* function when it returns, last registered first, whichever return       *)
(* statement or break ends it: `deferred` is the list the run has          *)
(* registered so far, and Return runs every entry of it.  The audio pipe   *)
(* is a second task, started by the run, that shares pipeCtx with it.      *)
(* executeActions and playTTS make RPCs to the speech and media services   *)
(* only; they touch nothing the run's control flow reads.                  *)
(***************************************************************************)
RoomNames == {"r1", "r2"}
PeerNames == {"p1", "p2"}
\* Orchestrator.pool: nil, a pool that accepts the pipe, a pool that refuses it
Pools == {"nil", "accepts", "refuses"}

\* sessionID := fmt.Sprintf("%s-%s", roomID, peerID)
SessionIDOf(roomID, peerID) == roomID \o "-" \o peerID

DialogRPC(rpc, sessionID) == [rpc |-> rpc, sessionID |-> sessionID]

NoRun ==
    [roomID |-> "", peerID |-> "", pool |-> "nil", pc |-> "idle",
     sessionID |-> "", deferred |-> <<>>, started |-> FALSE,
     received |-> 0, left |-> FALSE, exit |-> ""]

NoPipe == [pc |-> "none", frames |-> 0]

OrchIdle ==
    /\ orch = NoRun
    /\ pipeCtx = "none"
    /\ pipe = NoPipe
    /\ dialogRPCs = <<>>

\* HandleNewRoom(ctx, roomID, peerID, dialogName) is entered.
OrchInit ==
    /\ \E r \in RoomNames, p \in PeerNames, pool \in Pools :
         orch = [NoRun EXCEPT !.roomID = r, !.peerID = p, !.pool = pool,
                              !.sessionID = SessionIDOf(r, p),
                              !.pc = "subscribe"]
    /\ pipeCtx = "none"
    /\ pipe = NoPipe
    /\ dialogRPCs = <<>>

\* The number of deferred calls of one kind that the run has registered.
DeferredCalls(deferred, call) ==
    Cardinality({i \in 1..Len(deferred) : deferred[i] = call})

\* The function returns on the named path: every deferred call runs.
\* The deferred pipeCancel cancels pipeCtx; each deferred EndDialog sends
\* one EndDialog request for the run's session id.
Return(o, path) ==
    /\ orch' = [o EXCEPT !.pc = "returned", !.exit = path, !.deferred = <<>>]
    /\ pipeCtx' = IF DeferredCalls(o.deferred, "pipeCancel") > 0
                  THEN "cancelled" ELSE pipeCtx
    /\ dialogRPCs' = dialogRPCs \o
         [i \in 1..DeferredCalls(o.deferred, "EndDialog") |->
            DialogRPC("EndDialog", o.sessionID)]

\* 1. o.media.SubscribeAudio; an error returns.
HandleNewRoomSubscribe(ok) ==
    /\ orch.pc = "subscribe"
    /\ IF ok
       THEN /\ orch' = [orch EXCEPT !.pc = "config"]
            /\ UNCHANGED <<pipeCtx, dialogRPCs>>
       ELSE Return(orch, "subscribe audio failed")
    /\ UNCHANGED pipe
    /\ UNCHANGED notOrch

\* 2. o.speech.Transcribe and the config message; a failed Send closes the
\*    stream and returns.
HandleNewRoomConfig(ok) ==
    /\ orch.pc = "config"
    /\ IF ok
       THEN /\ orch' = [orch EXCEPT !.pc = "start"]
            /\ UNCHANGED <<pipeCtx, dialogRPCs>>
       ELSE Return(orch, "send transcribe config failed")
    /\ UNCHANGED pipe
    /\ UNCHANGED notOrch

\* The mutant registers nothing.
DeferNothing(deferred) == deferred

\* defer func() { _, _ = o.dialog.EndDialog(ctx, ...SessionId: sessionID) }()
DeferEndDialog(deferred) == Append(deferred, "EndDialog")

\* 3. o.dialog.StartDialog; an error closes the stream and returns, a
\*    success registers the deferred EndDialog and executes the initial
\*    actions.
HandleNewRoomStart(ok) ==
    /\ orch.pc = "start"
    /\ IF ok
       THEN /\ orch' = [orch EXCEPT !.pc = "pipe", !.started = TRUE,
                                    !.deferred = DeferEndDialog(@)]
            /\ dialogRPCs' = Append(dialogRPCs,
                                    DialogRPC("StartDialog", orch.sessionID))
            /\ UNCHANGED pipeCtx
       ELSE Return(orch, "start dialog failed")
    /\ UNCHANGED pipe
    /\ UNCHANGED notOrch

\* 4. pipeCtx is made and its cancel deferred; the pipe is submitted to the
\*    pool, or started as a goroutine when there is no pool.  A refused
\*    submission returns.
HandleNewRoomPipe ==
    /\ orch.pc = "pipe"
    /\ IF orch.pool = "refuses"
       THEN /\ Return([orch EXCEPT !.deferred = Append(@, "pipeCancel")],
                   "refused pipe submission")
            /\ UNCHANGED pipe
       ELSE /\ orch' = [orch EXCEPT !.pc = "select",
                                    !.deferred = Append(@, "pipeCancel")]
            /\ pipeCtx' = "live"
            /\ pipe' = [pipe EXCEPT !.pc = "running"]
            /\ UNCHANGED dialogRPCs
    /\ UNCHANGED notOrch

\* 5. The head of the main loop: select { case <-pipeCtx.Done(): return;
\*    default: }.
HandleNewRoomSelect ==
    /\ orch.pc = "select"
    /\ IF pipeCtx = "cancelled"
       THEN Return(orch, "audio-pipe exit")
       ELSE /\ orch' = [orch EXCEPT !.pc = "receive"]
            /\ UNCHANGED <<pipeCtx, dialogRPCs>>
    /\ UNCHANGED pipe
    /\ UNCHANGED notOrch

\* What transcribeStream.Receive returns.
ReceiveResults == {"interim", "final", "EOF", "error"}

\* transcribeStream.Receive: io.EOF and any other error break the loop, an
\* interim result continues it, a final result is forwarded.
HandleNewRoomReceive(result) ==
    /\ orch.pc = "receive"
    /\ result \in {"interim", "final"} => orch.received < MaxResults
    /\ CASE result = "EOF" -> Return(orch, "transcription EOF")
         [] result = "error" -> Return(orch, "transcription error")
         [] result = "interim" ->
              /\ orch' = [orch EXCEPT !.pc = "select",
                                      !.received = @ + 1]
              /\ UNCHANGED <<pipeCtx, dialogRPCs>>
         [] result = "final" ->
              /\ orch' = [orch EXCEPT !.pc = "forward",
                                      !.received = @ + 1]
              /\ UNCHANGED <<pipeCtx, dialogRPCs>>
    /\ UNCHANGED pipe
    /\ UNCHANGED notOrch

\* What o.dialog.SendEvent returns.
SendEventResults == {"error", "result", "terminal"}

\* o.dialog.SendEvent with the final text: an error continues the loop, a
\* result has its actions executed, and a terminal result leaves the room
\* and breaks the loop.
HandleNewRoomForward(result) ==
    /\ orch.pc = "forward"
    /\ IF result = "terminal"
       THEN Return([orch EXCEPT !.left = TRUE], "terminal result")
       ELSE /\ orch' = [orch EXCEPT !.pc = "select"]
            /\ UNCHANGED <<pipeCtx, dialogRPCs>>
    /\ UNCHANGED pipe
    /\ UNCHANGED notOrch

\* What one round of the pipe meets: a frame it forwards, a failed Send,
\* or the end of the audio stream.
PipeEvents == {"frame", "send failed", "stream ended"}

\* pipeFunc: forwards frames until the audio stream ends or a Send fails;
\* its deferred pipeCancel cancels pipeCtx when it returns.
pipeFunc(event) ==
    /\ pipe.pc = "running"
    /\ IF event = "frame"
       THEN /\ pipe.frames < MaxFrames
            /\ pipe' = [pipe EXCEPT !.frames = @ + 1]
            /\ UNCHANGED pipeCtx
       ELSE /\ pipe' = [pipe EXCEPT !.pc = "done"]
            /\ pipeCtx' = "cancelled"
    /\ UNCHANGED <<orch, dialogRPCs>>
    /\ UNCHANGED notOrch

NextOrch ==
    \/ \E ok \in BOOLEAN : HandleNewRoomSubscribe(ok)
    \/ \E ok \in BOOLEAN : HandleNewRoomConfig(ok)
    \/ \E ok \in BOOLEAN : HandleNewRoomStart(ok)
    \/ HandleNewRoomPipe
    \/ HandleNewRoomSelect
    \/ \E result \in ReceiveResults : HandleNewRoomReceive(result)
    \/ \E result \in SendEventResults : HandleNewRoomForward(result)
    \/ \E event \in PipeEvents : pipeFunc(event)

(***************************************************************************)
(* A simulcast or SVC track with several subscribers (publisher_track.go,  *)
(* forwarder.go).                                                          *)
(*                                                                         *)
(* Every layer of a track has one TrackRemote.  Read on a TrackRemote      *)
(* takes the next packet out of the receive buffer of that remote: a       *)
(* packet is returned to one Read call.  The track starts an               *)
(* rtpReaderLoop for every layer; startForwarder starts, for every         *)
(* subscription of a simulcast or SVC track, a forwarder that reads the    *)
(* same TrackRemote.  One round of a forwarder (copy the settings, Read,   *)
(* filter, Write) is taken as one step here; the interleaving of the       *)
(* settings with a round is the subject of the forwarder model above.     *)
(***************************************************************************)
FanSubs == 1..2

\* The layers of the track: a simulcast track has the layers q and f, an
\* SVC track the single layer its one TrackRemote carries ("").
FanLayers(kind) == IF kind = "simulcast" THEN {"q", "f"} ELSE {""}

\* An RTP packet: the n-th to arrive, on a layer, with the spatial layer id
\* of its VP9 payload.
FanPacket(n, layer, sid) == [n |-> n, layer |-> layer, SID |-> sid]

NewFanSubscription ==
    [paused |-> FALSE, currentQuality |-> QualityHigh, maxSpatialLayer |-> -1,
     written |-> {}]

FanInit(kinds) ==
    /\ \E kind \in kinds : fanTrack = [kind |-> kind, arrived |-> 0]
    /\ fanQueue = [l \in RIDs \cup {""} |-> <<>>]
    /\ fanSubs = [s \in FanSubs |-> NewFanSubscription]
    /\ fanOp = [op |-> "none"]

FanIdle == FanInit({"svc"})

\* The layer a subscription's forwarder reads: for simulcast the layer of
\* its current quality, or some layer when the track has no such layer; for
\* SVC the track's one layer.
FanLayerOf(s) ==
    IF fanTrack.kind = "simulcast"
    THEN IF qualityToRID(fanSubs[s].currentQuality) \in FanLayers("simulcast")
         THEN {qualityToRID(fanSubs[s].currentQuality)}
         ELSE FanLayers("simulcast")
    ELSE FanLayers("svc")

\* RunSVCForwarder drops a packet above the subscription's spatial limit.
FanFiltered(s, pkt) ==
    /\ fanTrack.kind = "svc"
    /\ fanSubs[s].maxSpatialLayer >= 0
    /\ pkt.SID > fanSubs[s].maxSpatialLayer

\* The subscriptions a packet of a layer is due to: those not paused that
\* select the layer and whose SVC limits admit the packet.
FanDue(pkt) ==
    {s \in FanSubs : /\ ~fanSubs[s].paused
                     /\ FanLayerOf(s) = {pkt.layer}
                     /\ ~FanFiltered(s, pkt)}

\* A packet arrives from the publisher on a layer.
FanPacketArrives(layer, sid) ==
    /\ fanTrack.arrived < MaxFanPackets
    /\ layer \in FanLayers(fanTrack.kind)
    /\ fanTrack' = [fanTrack EXCEPT !.arrived = @ + 1]
    /\ fanQueue' = [fanQueue EXCEPT
                      ![layer] = Append(@, FanPacket(fanTrack.arrived + 1, layer, sid))]
    /\ fanOp' = [op |-> "none"]
    /\ UNCHANGED fanSubs
    /\ UNCHANGED notFan

\* rtpReaderLoop of a layer: remote.Read; for an audio track the taps; the
\* write to the subscribers is skipped for a simulcast or SVC track.
FanReaderLoop(layer) ==
    /\ fanQueue[layer] # <<>>
    /\ fanQueue' = [fanQueue EXCEPT ![layer] = Tail(@)]
    /\ fanOp' = [op |-> "Read", by |-> 0, pkt |-> Head(fanQueue[layer]),
                 due |-> FanDue(Head(fanQueue[layer]))]
    /\ UNCHANGED <<fanTrack, fanSubs>>
    /\ UNCHANGED notFan

\* One round of RunSimulcastForwarder for subscription s: not paused, it
\* picks the layer of its quality, reads a packet from it and writes it to
\* its own down track.
FanSimulcastForwarder(s, layer) ==
    /\ fanTrack.kind = "simulcast"
    /\ ~fanSubs[s].paused
    /\ layer \in FanLayerOf(s)
    /\ fanQueue[layer] # <<>>
    /\ fanQueue' = [fanQueue EXCEPT ![layer] = Tail(@)]
    /\ fanSubs' = [fanSubs EXCEPT ![s].written = @ \cup {Head(fanQueue[layer]).n}]
    /\ fanOp' = [op |-> "Read", by |-> s, pkt |-> Head(fanQueue[layer]),
                 due |-> FanDue(Head(fanQueue[layer]))]
    /\ UNCHANGED fanTrack
    /\ UNCHANGED notFan

\* One round of RunSVCForwarder for subscription s: it reads a packet, and
\* writes it to its own down track unless it is paused or the packet is
\* above its limit.
FanSVCForwarder(s) ==
    LET pkt == Head(fanQueue[""]) IN
    /\ fanTrack.kind = "svc"
    /\ fanQueue[""] # <<>>
    /\ fanQueue' = [fanQueue EXCEPT ![""] = Tail(@)]
    /\ fanSubs' = IF fanSubs[s].paused \/ FanFiltered(s, pkt)
                  THEN fanSubs
                  ELSE [fanSubs EXCEPT ![s].written = @ \cup {pkt.n}]
    /\ fanOp' = [op |-> "Read", by |-> s, pkt |-> pkt, due |-> FanDue(pkt)]
    /\ UNCHANGED fanTrack
    /\ UNCHANGED notFan

\* UpdateSubscription: pause or resume, another quality, another limit.
FanUpdateSubscription(s, paused, quality, maxSpatial) ==
    /\ fanSubs' = [fanSubs EXCEPT ![s].paused = paused,
                                  ![s].currentQuality = quality,
                                  ![s].maxSpatialLayer = maxSpatial]
    /\ fanSubs' # fanSubs
    /\ fanOp' = [op |-> "none"]
    /\ UNCHANGED <<fanTrack, fanQueue>>
    /\ UNCHANGED notFan

NextFan ==
    \/ \E layer \in RIDs \cup {""}, sid \in 0..1 : FanPacketArrives(layer, sid)
    \/ \E layer \in RIDs \cup {""} : FanReaderLoop(layer)
    \/ \E s \in FanSubs, layer \in RIDs : FanSimulcastForwarder(s, layer)
    \/ \E s \in FanSubs : FanSVCForwarder(s)
    \/ \E s \in FanSubs, paused \in BOOLEAN,
          quality \in {QualityLow, QualityHigh}, maxSpatial \in {-1, 0} :
          FanUpdateSubscription(s, paused, quality, maxSpatial)

(***************************************************************************)
(* MediaHandler.JoinRoom and the context tree under a peer.  NewPeer       *)
(* derives the peer's context from the context it is handed,               *)
(* RegisterPublisherTrack derives a track's context from its publisher's,  *)
(* and the layer reader of a track watches the track's context.  A derived *)
(* context is done once its own cancel was called or its parent is done.   *)
(***************************************************************************)
JoinIdle ==
    /\ joinCalls = [c \in 1..1 |-> [pc |-> "idle", ctxDone |-> FALSE, peer |-> 0]]
    /\ joinPeers = <<>>
    /\ joinTracks = <<>>
    /\ joinClosed = FALSE

JoinInit ==
    /\ joinCalls = [c \in 1..MaxJoins |-> [pc |-> "idle", ctxDone |-> FALSE, peer |-> 0]]
    /\ joinPeers = <<>>
    /\ joinTracks = <<>>
    /\ joinClosed = FALSE

\* The context a JoinRoom call hands to NewPeer: ctx, the context of the
\* request being served.
ParentCtx(c) == c

\* p.ctx is done: p.cancel() was called, or the parent context is done.
PeerCtxDone(o) ==
    \/ joinPeers[o].cancelled
    \/ joinCalls[joinPeers[o].parent].ctxDone

\* pt.ctx, derived from publisher.Context().
TrackCtxDone(t) == joinTracks[t].cancelled \/ PeerCtxDone(joinTracks[t].publisher)

\* pt.Close() for every track of peer o (RemovePeer, Room.Close).
CloseTracksOf(P) ==
    [t \in DOMAIN joinTracks |->
        IF joinTracks[t].publisher \in P
        THEN [joinTracks[t] EXCEPT !.cancelled = TRUE]
        ELSE joinTracks[t]]

\* JoinRoom up to room.AddPeer: NewPeer(ctx, ...), then AddPeer; a closed
\* room refuses the peer, the handler closes it and returns an error.
JoinRoomAddPeer(c) ==
    /\ joinCalls[c].pc = "idle"
    /\ joinPeers' = Append(joinPeers,
          [parent |-> ParentCtx(c), cancelled |-> joinClosed, inRoom |-> ~joinClosed])
    /\ joinCalls' = [joinCalls EXCEPT
          ![c] = IF joinClosed
                 THEN [pc |-> "returned", ctxDone |-> TRUE, peer |-> Len(joinPeers) + 1]
                 ELSE [@ EXCEPT !.pc = "offer", !.peer = Len(joinPeers) + 1]]
    /\ UNCHANGED <<joinTracks, joinClosed>>
    /\ UNCHANGED notJoin

\* JoinRoom from peer.HandleOffer to its return: a failed offer removes the
\* peer from the room, which closes it and its tracks; otherwise the
\* response is returned.  The server ends the request's context when the
\* handler returns.
JoinRoomHandleOffer(c, ok) ==
    LET o == joinCalls[c].peer IN
    /\ joinCalls[c].pc = "offer"
    /\ joinCalls' = [joinCalls EXCEPT ![c].pc = "returned", ![c].ctxDone = TRUE]
    /\ IF ok
       THEN UNCHANGED <<joinPeers, joinTracks>>
       ELSE /\ joinPeers' = [joinPeers EXCEPT ![o].cancelled = TRUE, ![o].inRoom = FALSE]
            /\ joinTracks' = CloseTracksOf({o})
    /\ UNCHANGED joinClosed
    /\ UNCHANGED notJoin

\* The client gives the call up while the handler runs: the request's
\* context is cancelled; the handler reads ctx nowhere and goes on.
JoinRoomCancelled(c) ==
    /\ joinCalls[c].pc = "offer"
    /\ ~joinCalls[c].ctxDone
    /\ joinCalls' = [joinCalls EXCEPT ![c].ctxDone = TRUE]
    /\ UNCHANGED <<joinPeers, joinTracks, joinClosed>>
    /\ UNCHANGED notJoin

\* The OnTrack callback of a peer in the room: RegisterPublisherTrack makes
\* NewPublisherTrack(publisher.Context(), ...), which starts the layer
\* reader.
JoinRegisterPublisherTrack(o) ==
    /\ o \in DOMAIN joinPeers
    /\ joinPeers[o].inRoom
    /\ Len(joinTracks) < MaxJoinTracks
    /\ joinTracks' = Append(joinTracks,
          [publisher |-> o, cancelled |-> FALSE, reader |-> "running", packets |-> 0])
    /\ UNCHANGED <<joinCalls, joinPeers, joinClosed>>
    /\ UNCHANGED notJoin

\* One round of rtpReaderLoop: return when pt.ctx is done, else read a
\* packet.
JoinRtpReaderLoop(t) ==
    /\ t \in DOMAIN joinTracks
    /\ joinTracks[t].reader = "running"
    /\ IF TrackCtxDone(t)
       THEN joinTracks' = [joinTracks EXCEPT ![t].reader = "exited"]
       ELSE /\ joinTracks[t].packets < MaxJoinPackets
            /\ joinTracks' = [joinTracks EXCEPT ![t].packets = @ + 1]
    /\ UNCHANGED <<joinCalls, joinPeers, joinClosed>>
    /\ UNCHANGED notJoin

\* Room.RemovePeer for a peer in the room: its tracks are closed, then the
\* peer.
JoinRemovePeer(o) ==
    /\ o \in DOMAIN joinPeers
    /\ joinPeers[o].inRoom
    /\ joinPeers' = [joinPeers EXCEPT ![o].cancelled = TRUE, ![o].inRoom = FALSE]
    /\ joinTracks' = CloseTracksOf({o})
    /\ UNCHANGED <<joinCalls, joinClosed>>
    /\ UNCHANGED notJoin

\* Room.Close (CloseRoom, SFU.Close): every track and every peer of the room
\* is closed.
JoinRoomClose ==
    /\ ~joinClosed
    /\ joinClosed' = TRUE
    /\ joinPeers' = [o \in DOMAIN joinPeers |->
          IF joinPeers[o].inRoom
          THEN [joinPeers[o] EXCEPT !.cancelled = TRUE, !.inRoom = FALSE]
          ELSE joinPeers[o]]
    /\ joinTracks' = CloseTracksOf({o \in DOMAIN joinPeers : joinPeers[o].inRoom})
    /\ UNCHANGED joinCalls
    /\ UNCHANGED notJoin

NextJoin ==
    \/ \E c \in 1..MaxJoins : JoinRoomAddPeer(c)
    \/ \E c \in 1..MaxJoins, ok \in BOOLEAN : JoinRoomHandleOffer(c, ok)
    \/ \E c \in 1..MaxJoins : JoinRoomCancelled(c)
    \/ \E o \in DOMAIN joinPeers : JoinRegisterPublisherTrack(o)
    \/ \E t \in DOMAIN joinTracks : JoinRtpReaderLoop(t)
    \/ \E o \in DOMAIN joinPeers : JoinRemovePeer(o)
    \/ JoinRoomClose

(***************************************************************************)
(* Lock order in the SFU.  One SFU, one room, one publisher track and one  *)
(* peer, each with its sync.RWMutex; an operation is the sequence of lock  *)
(* and unlock calls it makes, nested calls included, in program order.     *)
(***************************************************************************)
Mutexes == {"sfu", "room", "track", "peer"}

\* The documented order: SFU, Room, PublisherTrack, Peer.
Rank(mu) ==
    CASE mu = "sfu" -> 1
      [] mu = "room" -> 2
      [] mu = "track" -> 3
      [] mu = "peer" -> 4

Lock(mu) == <<[op |-> "Lock", mu |-> mu]>>
Unlock(mu) == <<[op |-> "Unlock", mu |-> mu]>>
RLock(mu) == <<[op |-> "RLock", mu |-> mu]>>
RUnlock(mu) == <<[op |-> "RUnlock", mu |-> mu]>>

\* Peer.AddDownTrack, RemoveDownTrack, Close, Info: p.mu for the whole call.
PeerCall == Lock("peer") \o Unlock("peer")

\* PublisherTrack.startLayerReader: pt.mu.RLock around the layer lookup.
StartLayerReader == RLock("track") \o RUnlock("track")

\* PublisherTrack.Subscribe: the layer lookup under pt.mu.RLock, then
\* subscriber.AddDownTrack, then the insert under pt.mu.Lock.
PtSubscribeLocks ==
    RLock("track") \o RUnlock("track") \o PeerCall \o Lock("track") \o Unlock("track")

\* PublisherTrack.Unsubscribe: the delete under pt.mu.Lock, then sub.Close
\* and subscriber.RemoveDownTrack.
PtUnsubscribeLocks == Lock("track") \o Unlock("track") \o PeerCall

\* PublisherTrack.Close, AddAudioTap, RemoveAudioTap, AddLayer's update.
PtLocked == Lock("track") \o Unlock("track")

\* Room.AddPeer: r.mu for the whole call, auto-subscribing inside it.
AddPeerPath == Lock("room") \o PtSubscribeLocks \o Unlock("room")

\* Room.RemovePeer: under r.mu the sweep of Unsubscribe and the Close of the
\* peer's tracks; peer.Close() after r.mu.Unlock.
RemovePeerPath ==
    Lock("room") \o PtUnsubscribeLocks \o PtLocked \o Unlock("room") \o PeerCall

\* Room.RemovePeer for an id the room does not hold.
RemovePeerMissingPath == Lock("room") \o Unlock("room")

\* Room.Close: the tracks are closed under r.mu, the peers after it.
RoomClosePath == Lock("room") \o PtLocked \o Unlock("room") \o PeerCall

\* Room.AddAudioTap and RemoveAudioTap.
AudioTapPath == Lock("room") \o PtLocked \o Unlock("room")

\* The OnTrack callback: p.mu around the publishedTracks update, then
\* Room.RegisterPublisherTrack, which under r.mu creates the track (starting
\* its layer reader), registers the taps and auto-subscribes the peers.
OnTrackPath ==
    PeerCall \o Lock("room") \o StartLayerReader \o PtLocked \o PtSubscribeLocks
        \o Unlock("room")

\* The OnTrack callback for a further simulcast layer: r.mu is released
\* before AddLayer.
OnTrackLayerPath ==
    PeerCall \o Lock("room") \o Unlock("room") \o PtLocked \o StartLayerReader

\* The callback calls room.RemovePeer while it holds p.mu.
StateChangeRemovesHoldingPeer == Lock("peer") \o RemovePeerPath \o Unlock("peer")

\* The OnConnectionStateChange callback on failed or closed: p.mu is
\* released before room.RemovePeer(p.id).
StateChangeRemovesPath == Lock("peer") \o Unlock("peer") \o RemovePeerPath

\* The OnConnectionStateChange callback on any other state.
StateChangePath == PeerCall

\* Room.Subscribe, Unsubscribe, UpdateSubscription: r.mu.RLock around the
\* map lookups only.
SubscribePath == RLock("room") \o RUnlock("room") \o PtSubscribeLocks
UnsubscribePath == RLock("room") \o RUnlock("room") \o PtUnsubscribeLocks
UpdateSubscriptionPath ==
    RLock("room") \o RUnlock("room") \o RLock("track") \o RUnlock("track")

\* SFU.Stats: s.mu.RLock for the whole call; per room r.Peers(), then
\* r.mu.RLock around the tracks, each read under pt.mu.RLock.
StatsPath ==
    RLock("sfu") \o RLock("room") \o RUnlock("room")
        \o RLock("room") \o RLock("track") \o RUnlock("track") \o RUnlock("room")
        \o RUnlock("sfu")

\* SFU.CloseRoom and SFU.Close: s.mu is released before Room.Close.
CloseRoomPath == Lock("sfu") \o Unlock("sfu") \o RoomClosePath

\* SFU.CreateRoomWithConfig, GetRoom, ListRooms.
SFUCallPath == Lock("sfu") \o Unlock("sfu")

\* One round of rtpReaderLoop on an audio track: the taps, then the
\* subscribers, each under pt.mu.RLock.
RtpReaderLoopPath ==
    RLock("track") \o RUnlock("track") \o RLock("track") \o RUnlock("track")

\* RunSimulcastForwarder on a layer change: the layer under pt.mu.RLock,
\* then the publisher's connection under pub.mu.
ForwarderPLIPath == RLock("track") \o RUnlock("track") \o PeerCall

LockPaths ==
    [AddPeer |-> AddPeerPath,
     RemovePeer |-> RemovePeerPath,
     RemovePeerMissing |-> RemovePeerMissingPath,
     RoomClose |-> RoomClosePath,
     AudioTap |-> AudioTapPath,
     OnTrack |-> OnTrackPath,
     OnTrackLayer |-> OnTrackLayerPath,
     StateChangeRemoves |-> StateChangeRemovesPath,
     StateChange |-> StateChangePath,
     Subscribe |-> SubscribePath,
     Unsubscribe |-> UnsubscribePath,
     UpdateSubscription |-> UpdateSubscriptionPath,
     Stats |-> StatsPath,
     CloseRoom |-> CloseRoomPath,
     SFUCall |-> SFUCallPath,
     RtpReaderLoop |-> RtpReaderLoopPath,
     ForwarderPLI |-> ForwarderPLIPath]

NoThread == [path |-> "none", pc |-> 0, held |-> <<>>]

LocksIdle ==
    /\ lockThreads = [g \in 1..1 |-> NoThread]
    /\ lockOp = [op |-> "none"]

LocksInit ==
    /\ lockThreads = [g \in 1..MaxGoroutines |-> NoThread]
    /\ lockOp = [op |-> "none"]

\* The mutexes a goroutine holds, and those held for writing.
HeldSet(g) == {lockThreads[g].held[i].mu : i \in 1..Len(lockThreads[g].held)}
WriteHeldSet(g) ==
    {lockThreads[g].held[i].mu :
        i \in {j \in 1..Len(lockThreads[g].held) : lockThreads[g].held[j].op = "Lock"}}

\* sync.RWMutex: Lock waits for every holder, RLock for a writer.
Available(g, ins) ==
    \A h \in DOMAIN lockThreads \ {g} :
        IF ins.op = "Lock" THEN ins.mu \notin HeldSet(h)
        ELSE ins.mu \notin WriteHeldSet(h)

\* held without its latest entry for mu.
RECURSIVE Release(_, _)
Release(held, mu) ==
    IF held = <<>> THEN <<>>
    ELSE IF held[Len(held)].mu = mu THEN SubSeq(held, 1, Len(held) - 1)
    ELSE Append(Release(SubSeq(held, 1, Len(held) - 1), mu), held[Len(held)])

\* A goroutine enters an operation.
LockCall(g, path) ==
    /\ lockThreads[g].path = "none"
    /\ lockThreads' = [lockThreads EXCEPT ![g] = [path |-> path, pc |-> 1, held |-> <<>>]]
    /\ lockOp' = [op |-> "none"]
    /\ UNCHANGED notLocks

\* The goroutine's next Lock or RLock, once the mutex is available.
LockAcquire(g) ==
    LET th == lockThreads[g] IN
    /\ th.path # "none"
    /\ th.pc <= Len(LockPaths[th.path])
    /\ LET ins == LockPaths[th.path][th.pc] IN
       /\ ins.op \in {"Lock", "RLock"}
       /\ Available(g, ins)
       /\ lockThreads' = [lockThreads EXCEPT ![g].pc = @ + 1,
                                             ![g].held = Append(@, ins)]
       /\ lockOp' = [op |-> "acquire", goroutine |-> g, mu |-> ins.mu,
                     path |-> th.path, held |-> HeldSet(g)]
    /\ UNCHANGED notLocks

\* The goroutine's next Unlock or RUnlock.
LockRelease(g) ==
    LET th == lockThreads[g] IN
    /\ th.path # "none"
    /\ th.pc <= Len(LockPaths[th.path])
    /\ LET ins == LockPaths[th.path][th.pc] IN
       /\ ins.op \in {"Unlock", "RUnlock"}
       /\ lockThreads' = [lockThreads EXCEPT ![g].pc = @ + 1,
                                             ![g].held = Release(@, ins.mu)]
       /\ lockOp' = [op |-> "none"]
    /\ UNCHANGED notLocks

\* The operation returns.
LockReturn(g) ==
    LET th == lockThreads[g] IN
    /\ th.path # "none"
    /\ th.pc > Len(LockPaths[th.path])
    /\ lockThreads' = [lockThreads EXCEPT ![g] = NoThread]
    /\ lockOp' = [op |-> "none"]
    /\ UNCHANGED notLocks

NextLocks ==
    \/ \E g \in 1..MaxGoroutines, path \in DOMAIN LockPaths : LockCall(g, path)
    \/ \E g \in 1..MaxGoroutines : LockAcquire(g)
    \/ \E g \in 1..MaxGoroutines : LockRelease(g)
    \/ \E g \in 1..MaxGoroutines : LockReturn(g)

InitDialog ==
    /\ DialogInit
    /\ BreakerInit({1}, {1}, {1})
    /\ SFUInit({<<1, FALSE, FALSE>>})
    /\ DeliverIdle
    /\ ForwardIdle
    /\ EngineIdle
    /\ FSMIdle
    /\ EventsIdle
    /\ OrchIdle
    /\ RequestsIdle
    /\ FanIdle
    /\ JoinIdle
    /\ LocksIdle

SpecDialog == InitDialog /\ [][NextDialog]_vars

\* The handler serving one session to callers that call SendEvent at the
\* same time.
InitDialogConcurrent ==
    /\ DialogInitFor(MaxConcurrentCalls)
    /\ BreakerInit({1}, {1}, {1})
    /\ SFUInit({<<1, FALSE, FALSE>>})
    /\ DeliverIdle
    /\ ForwardIdle
    /\ EngineIdle
    /\ FSMIdle
    /\ EventsIdle
    /\ OrchIdle
    /\ RequestsIdle
    /\ FanIdle
    /\ JoinIdle
    /\ LocksIdle

\* A step of the loop of session h, and a step of SendEvent call c past its
\* lookup.
LoopStep(h) ==
    \/ LoopTerminal(h)
    \/ LoopCancelled(h)
    \/ LoopSpeech(h)
    \/ LoopDtmf(h)
    \/ LoopTimeout(h)
    \/ LoopPush(h)

CallStep(c) ==
    \/ SendEventEnqueue(c)
    \/ SendEventBusy(c)
    \/ SendEventReceive(c)
    \/ SendEventDeadline(c)

\* The handler serving a single session.
NextDialogSingle == NextDialog /\ Len(sess') <= 1

SpecDialogConcurrent == InitDialogConcurrent /\ [][NextDialogSingle]_vars

\* The dialog handler with its scheduling: the goroutine of every session
\* loop keeps running, a select with several ready cases picks each of them
\* sooner or later (the runtime picks at random), and a SendEvent call that
\* can proceed again and again does proceed (receivers blocked on a channel
\* are served in arrival order, and a call's timers fire).
FairSpecDialog ==
    /\ InitDialog
    /\ [][NextDialogSingle]_vars
    /\ \A h \in 1..MaxSessionObjs :
          /\ WF_vars(h \in DOMAIN sess /\ LoopStep(h))
          /\ SF_vars(h \in DOMAIN sess /\ LoopSpeech(h))
          /\ SF_vars(h \in DOMAIN sess /\ LoopDtmf(h))
    /\ \A c \in 1..MaxCalls : SF_vars(CallStep(c))

\* The handler serving a single session that may be started in hold.
NextDialogHold ==
    /\ \/ \E id \in SessionIds : StartDialog(id, "hold")
       \/ NextDialog
    /\ Len(sess') <= 1

\* The same scheduling for that handler; besides, a select whose
\* cancellation case is ready again and again picks it sooner or later.
FairSpecDialogHold ==
    /\ InitDialog
    /\ [][NextDialogHold]_vars
    /\ \A h \in 1..MaxSessionObjs :
          /\ WF_vars(h \in DOMAIN sess /\ LoopStep(h))
          /\ SF_vars(h \in DOMAIN sess /\ LoopSpeech(h))
          /\ SF_vars(h \in DOMAIN sess /\ LoopDtmf(h))
          /\ SF_vars(h \in DOMAIN sess /\ LoopCancelled(h))
    /\ \A c \in 1..MaxCalls : SF_vars(CallStep(c))

InitSFU ==
    /\ SFUInit(RoomConfigs)
    /\ BreakerInit({1}, {1}, {1})
    /\ DialogInit
    /\ DeliverIdle
    /\ ForwardIdle
    /\ EngineIdle
    /\ FSMIdle
    /\ EventsIdle
    /\ OrchIdle
    /\ RequestsIdle
    /\ FanIdle
    /\ JoinIdle
    /\ LocksIdle

SpecSFU == InitSFU /\ [][NextSFU]_vars

SpecRoomMedia == InitSFU /\ [][NextRoomMedia]_vars

InitBreaker ==
    /\ BreakerInit(1..MaxThreshold, 1..MaxTimeout, 0..2)
    /\ SFUInit({<<1, FALSE, FALSE>>})
    /\ DialogInit
    /\ DeliverIdle
    /\ ForwardIdle
    /\ EngineIdle
    /\ FSMIdle
    /\ EventsIdle
    /\ OrchIdle
    /\ RequestsIdle
    /\ FanIdle
    /\ JoinIdle
    /\ LocksIdle

SpecBreaker == InitBreaker /\ [][NextBreaker]_vars

SpecShared == InitBreaker /\ [][NextShared]_vars

InitDeliver ==
    /\ DeliverInit(DelivererConfigs, Scripts)
    /\ BreakerInit({1}, {1}, {1})
    /\ SFUInit({<<1, FALSE, FALSE>>})
    /\ DialogInit
    /\ ForwardIdle
    /\ EngineIdle
    /\ FSMIdle
    /\ EventsIdle
    /\ OrchIdle
    /\ RequestsIdle
    /\ FanIdle
    /\ JoinIdle
    /\ LocksIdle

SpecDeliver == InitDeliver /\ [][NextDeliver]_vars

InitForward ==
    /\ ForwardInit(TrackShapes)
    /\ BreakerInit({1}, {1}, {1})
    /\ SFUInit({<<1, FALSE, FALSE>>})
    /\ DialogInit
    /\ DeliverIdle
    /\ EngineIdle
    /\ FSMIdle
    /\ EventsIdle
    /\ OrchIdle
    /\ RequestsIdle
    /\ FanIdle
    /\ JoinIdle
    /\ LocksIdle

SpecForward == InitForward /\ [][NextForward]_vars

InitEngine ==
    /\ EngineInit(DialogNames)
    /\ BreakerInit({1}, {1}, {1})
    /\ SFUInit({<<1, FALSE, FALSE>>})
    /\ DialogInit
    /\ DeliverIdle
    /\ ForwardIdle
    /\ FSMIdle
    /\ EventsIdle
    /\ OrchIdle
    /\ RequestsIdle
    /\ FanIdle
    /\ JoinIdle
    /\ LocksIdle

SpecEngine == InitEngine /\ [][NextEngine]_vars

InitSession ==
    /\ SessionInit(HistoryLengths)
    /\ eng = NewRun
    /\ engOp = [op |-> "none"]
    /\ BreakerInit({1}, {1}, {1})
    /\ SFUInit({<<1, FALSE, FALSE>>})
    /\ DialogInit
    /\ DeliverIdle
    /\ ForwardIdle
    /\ FSMIdle
    /\ EventsIdle
    /\ OrchIdle
    /\ RequestsIdle
    /\ FanIdle
    /\ JoinIdle
    /\ LocksIdle

SpecSession == InitSession /\ [][NextSession]_vars

InitEvaluate ==
    /\ EvaluateInit
    /\ BreakerInit({1}, {1}, {1})
    /\ SFUInit({<<1, FALSE, FALSE>>})
    /\ DialogInit
    /\ DeliverIdle
    /\ ForwardIdle
    /\ EngineIdle
    /\ EventsIdle
    /\ OrchIdle
    /\ RequestsIdle
    /\ FanIdle
    /\ JoinIdle
    /\ LocksIdle

SpecEvaluate == InitEvaluate /\ [][NextEvaluate]_vars

InitLoader ==
    /\ LoaderInit
    /\ BreakerInit({1}, {1}, {1})
    /\ SFUInit({<<1, FALSE, FALSE>>})
    /\ DialogInit
    /\ DeliverIdle
    /\ ForwardIdle
    /\ EngineIdle
    /\ EventsIdle
    /\ OrchIdle
    /\ RequestsIdle
    /\ FanIdle
    /\ JoinIdle
    /\ LocksIdle

SpecLoader == InitLoader /\ [][NextLoader]_vars

InitEvents ==
    /\ EventsInit
    /\ BreakerInit({1}, {1}, {1})
    /\ SFUInit({<<1, FALSE, FALSE>>})
    /\ DialogInit
    /\ DeliverIdle
    /\ ForwardIdle
    /\ EngineIdle
    /\ FSMIdle
    /\ OrchIdle
    /\ RequestsIdle
    /\ FanIdle
    /\ JoinIdle
    /\ LocksIdle

SpecEvents == InitEvents /\ [][NextEvents]_vars

InitOrch ==
    /\ OrchInit
    /\ BreakerInit({1}, {1}, {1})
    /\ SFUInit({<<1, FALSE, FALSE>>})
    /\ DialogInit
    /\ DeliverIdle
    /\ ForwardIdle
    /\ EngineIdle
    /\ FSMIdle
    /\ EventsIdle
    /\ RequestsIdle
    /\ FanIdle
    /\ JoinIdle
    /\ LocksIdle

SpecOrch == InitOrch /\ [][NextOrch]_vars

InitFan ==
    /\ FanInit({"simulcast", "svc"})
    /\ BreakerInit({1}, {1}, {1})
    /\ SFUInit({<<1, FALSE, FALSE>>})
    /\ DialogInit
    /\ DeliverIdle
    /\ ForwardIdle
    /\ EngineIdle
    /\ FSMIdle
    /\ EventsIdle
    /\ OrchIdle
    /\ RequestsIdle
    /\ JoinIdle
    /\ LocksIdle

SpecFan == InitFan /\ [][NextFan]_vars

InitJoin ==
    /\ FanIdle
    /\ BreakerInit({1}, {1}, {1})
    /\ SFUInit({<<1, FALSE, FALSE>>})
    /\ DialogInit
    /\ DeliverIdle
    /\ ForwardIdle
    /\ EngineIdle
    /\ FSMIdle
    /\ EventsIdle
    /\ OrchIdle
    /\ RequestsIdle
    /\ JoinInit
    /\ LocksIdle

SpecJoin == InitJoin /\ [][NextJoin]_vars

InitLocks ==
    /\ FanIdle
    /\ BreakerInit({1}, {1}, {1})
    /\ SFUInit({<<1, FALSE, FALSE>>})
    /\ DialogInit
    /\ DeliverIdle
    /\ ForwardIdle
    /\ EngineIdle
    /\ FSMIdle
    /\ EventsIdle
    /\ OrchIdle
    /\ RequestsIdle
    /\ JoinIdle
    /\ LocksInit

SpecLocks == InitLocks /\ [][NextLocks]_vars

(***************************************************************************)
(* Claims about the dialog handler.                                        *)
(***************************************************************************)

\* C1 (as claimed): a StartDialog whose session id names a session in the
\* store fails with already-exists and leaves that session stored.
C1_DuplicateStartFails ==
    (dlgOp.op = "StartDialog" /\ dlgOp.prior # 0) =>
        /\ dlgOp.res \in {"already-exists", "not-found"}
        /\ store[dlgOp.id] = dlgOp.prior

\* C2 (as claimed): a session's result channel never holds more results than
\* there are SendEvent calls waiting on it.
C2_ResultsHaveWaiters ==
    \A h \in DOMAIN sess :
        Len(sess[h].resultCh) <=
            Cardinality({c \in 1..MaxCalls : calls[c].pc = "wait" /\ calls[c].h = h})

\* The store maps no id to session h.
NotStored(h) == \A id \in SessionIds : store[id] # h

\* C16: an EndDialog that found the session has removed it from the store
\* and cancelled its context; when it returns it has closed the input
\* channels, and the loop has exited or the 5 s wait ran out on a loop stuck
\* on its result channel; channels are closed on no other path; and a
\* GetSession, SendEvent or EndDialog that finds no entry for the id (as
\* after the removal) returns not-found.
C16_EndDialogRemoves ==
    /\ \A h \in ending : NotStored(h) /\ sess[h].cancelled
    /\ \A h \in DOMAIN sess :
          sess[h].inputsClosed => NotStored(h) /\ sess[h].cancelled
    /\ (dlgOp.op = "EndDialog" /\ dlgOp.res = "ok") =>
          /\ sess[dlgOp.h].inputsClosed
          /\ sess[dlgOp.h].loop = "done" \/ BlockedOnResult(dlgOp.h)
    /\ (dlgOp.op \in {"GetSession", "SendEvent", "EndDialog"}
          /\ dlgOp.at = "lookup" /\ store[dlgOp.id] = 0) =>
          dlgOp.res = "not-found"

\* After EndDialog ended the only session of an id, GetSession for the id
\* returns not-found.
C16_Witness ==
    /\ dlgOp.op = "GetSession"
    /\ dlgOp.res = "not-found"
    /\ \E h \in DOMAIN sess :
          sess[h].id = dlgOp.id /\ sess[h].inputsClosed /\ sess[h].loop = "done"

\* C17: a SendEvent call that found its session returns: every call in
\* flight eventually is no longer in flight (it returned a result,
\* resource-exhausted after the 5 s send timer, or deadline-exceeded after
\* the 10 s result timer).
C17_SendEventReturns ==
    \A c \in 1..MaxCalls : (calls[c].pc # "idle") ~> (calls[c].pc = "idle")

\* A call returned deadline-exceeded and no call is left in flight.
C17_Witness ==
    /\ dlgOp.op = "SendEvent"
    /\ dlgOp.res = "deadline-exceeded"
    /\ \A c \in 1..MaxCalls : calls[c].pc = "idle"

\* C19: a SendEvent(speech) call whose event the loop evaluated, taking a
\* transition from state s to state t, returns previousState = s,
\* currentState = t, terminal = t's terminal flag, and actions = the actions
\* of the transition followed by t's on_enter actions.
C19_SpeechResponse ==
    (/\ dlgOp.op = "SendEvent" /\ dlgOp.res = "ok"
     /\ dlgOp.ev = "speech" /\ dlgOp.handled.to # "") =>
        LET s == dlgOp.handled.from
            t == dlgOp.handled.to
        IN /\ dlgOp.previousState = s
           /\ dlgOp.result.newState = t
           /\ dlgOp.result.terminal = GetState(t).Terminal
           /\ dlgOp.result.actions =
                 TransitionActions(GetState(s), "speech") \o GetState(t).OnEnter

(***************************************************************************)
(* Claims about the SFU room.                                              *)
(***************************************************************************)

\* C3: while the room is not closed its peer count never exceeds maxPeers,
\* and an AddPeer that finds the room at capacity fails and adds nothing.
C3_PeerCap ==
    /\ ~room.closed => PeerCount(room) <= room.maxPeers
    /\ (sfuOp.op = "AddPeer" /\ sfuOp.before >= room.maxPeers) =>
          /\ sfuOp.res \in {"closed", "full"}
          /\ PeerCount(room) = (IF room.closed THEN 0 ELSE sfuOp.before)

\* C3 witness: an AddPeer on an open room holding maxPeers peers has just
\* been refused as full.
C3_Witness ==
    /\ sfuOp.op = "AddPeer"
    /\ sfuOp.res = "full"
    /\ ~room.closed
    /\ sfuOp.before = room.maxPeers
    /\ PeerCount(room) = room.maxPeers

\* C4 (as claimed): RemovePeer(p) of a peer in the room lowers the peer count
\* by one, and once it has returned every subscription p held is closed and
\* every publisher track p owned is closed.
C4_RemovePeerCloses ==
    /\ (sfuOp.op = "RemovePeerLocked" /\ sfuOp.peer # 0) =>
          PeerCount(room) = sfuOp.before - 1
    /\ (sfuOp.op = "PeerClosed" /\ sfuOp.call.rm) =>
          /\ \A s \in sfuOp.call.held : SubDone(Graph, s)
          /\ \A t \in sfuOp.call.owned : TrackDone(Graph, t)

\* C5 (as claimed): every registered publisher track is owned by a peer that
\* is in the room, whenever the track callback arrived.
C5_TrackOwnerInRoom ==
    \A tid \in TrackIds :
        room.publisherTracks[tid] # 0 =>
            room.peers[peers[tracks[room.publisherTracks[tid]].publisher].id] # 0

\* C6 (as claimed): once a second Subscribe of the same peer to the same track
\* is stored, the subscription it replaced is no longer active: nothing is
\* written to its down track any more.
C6_PriorStopped ==
    sfuOp.op = "Write" =>
        ~\E s2 \in DOMAIN subs :
            /\ s2 > sfuOp.sub
            /\ subs[s2].track = subs[sfuOp.sub].track
            /\ subs[s2].subscriber = subs[sfuOp.sub].subscriber
            /\ tracks[subs[s2].track].subscribers[peers[subs[s2].subscriber].id] = s2

\* C7 (as claimed): a subscription that has been closed, on whatever path, is
\* no longer the down track its subscriber holds for the track id.
C7_ClosedLeavesNoDownTrack ==
    \A s \in DOMAIN subs :
        subs[s].cancelled =>
            peers[subs[s].subscriber].downTracks[tracks[subs[s].track].id] # s

\* C23: a peer starts in state connecting; a report of connected leaves it
\* connected and the room's peers as they were; a report of failed or closed
\* leaves it disconnected and no longer among the room's peers; a report of
\* disconnected leaves it disconnected and the room's peers as they were.
C23_PeerStateOnReport ==
    /\ (sfuOp.op = "AddPeer" /\ sfuOp.res = "ok") =>
          peers[Len(peers)].state = "connecting"
    /\ sfuOp.op = "StateChange" =>
          LET o == sfuOp.peer
              id == peers[o].id
          IN /\ sfuOp.report = "connected" =>
                   peers[o].state = "connected" /\ room.peers = sfuOp.before
             /\ sfuOp.report \in {"failed", "closed"} =>
                   /\ peers[o].state = "disconnected"
                   /\ \A p \in PeerIds : room.peers[p] # o
                   /\ \A p \in PeerIds \ {id} : room.peers[p] = sfuOp.before[p]
             /\ sfuOp.report = "disconnected" =>
                   peers[o].state = "disconnected" /\ room.peers = sfuOp.before

\* C23 happens: the transport of a peer of the room reported closed; the peer
\* is disconnected and the room, which held two peers, holds the other one.
C23_Witness ==
    /\ sfuOp.op = "StateChange" /\ sfuOp.report = "closed"
    /\ sfuOp.before[peers[sfuOp.peer].id] = sfuOp.peer
    /\ \A p \in PeerIds : sfuOp.before[p] # 0
    /\ peers[sfuOp.peer].state = "disconnected"
    /\ PeerCount(room) = 1

\* The subscriptions of peer object o to track object t.
SubscriptionsOf(o, t) ==
    {s \in DOMAIN subs : subs[s].subscriber = o /\ subs[s].track = t}

\* The audio tracks registered in the room that peers with another id than
\* peer object o published.
AudioTracksOfOthers(o) ==
    {t \in Registered(room) :
        tracks[t].kind = "audio" /\ peers[tracks[t].publisher].id # peers[o].id}

\* C24: when AddPeer has added a peer to a room with auto-subscribe-audio,
\* the peer has, for every audio track another peer published before,
\* exactly one subscription, at quality high, which is the one the track
\* holds for the peer and the peer holds for the track.
C24_AutoSubscribedOnce ==
    (sfuOp.op = "AddPeer" /\ sfuOp.res = "ok" /\ room.autoSubscribeAudio) =>
        LET o == Len(peers) IN
        \A t \in AudioTracksOfOthers(o) :
            /\ Cardinality(SubscriptionsOf(o, t)) = 1
            /\ \A s \in SubscriptionsOf(o, t) :
                  /\ subs[s].currentQuality = QualityHigh
                  /\ tracks[t].subscribers[peers[o].id] = s
                  /\ peers[o].downTracks[tracks[t].id] = s

\* C24 happens: peer b has just been added to an auto-subscribe room in which
\* peer a, still in the room, had published an audio track; b is subscribed.
C24_Witness ==
    /\ sfuOp.op = "AddPeer" /\ sfuOp.res = "ok" /\ room.autoSubscribeAudio
    /\ Len(peers) = 2 /\ peers[2].id = "b"
    /\ room.peers["a"] = 1
    /\ AudioTracksOfOthers(2) # {}
    /\ \A t \in AudioTracksOfOthers(2) :
          tracks[t].publisher = 1 /\ SubscriptionsOf(2, t) # {}

\* C25: every audio tap the room holds is on every audio track registered in
\* the room, whether the track was registered before the tap or after it; a
\* tap just added is held, a tap just removed is not.
C25_TapsOnAudioTracks ==
    /\ \A id \in room.audioTaps :
          \A t \in Registered(room) :
              tracks[t].kind = "audio" => id \in tracks[t].audioTaps
    /\ sfuOp.op = "AddAudioTap" => sfuOp.tap \in room.audioTaps
    /\ sfuOp.op = "RemoveAudioTap" => sfuOp.tap \notin room.audioTaps

\* C25 happens: an audio track has just been registered in a room that held a
\* tap, and the tap is on the track.
C25_Witness ==
    /\ sfuOp.op = "OnTrack" /\ ~sfuOp.layer
    /\ room.audioTaps # {}
    /\ \E t \in Registered(room) :
          tracks[t].kind = "audio" /\ tracks[t].audioTaps = room.audioTaps

(***************************************************************************)
(* Claims about the circuit breaker.                                       *)
(***************************************************************************)

\* C8: a breaker that starts closed with FailureThreshold n is open exactly
\* when n failures have been recorded with no success between them: while
\* fewer than n consecutive failures are recorded it is closed and
\* AllowRequest returns true, the n-th consecutive failure opens it, and a
\* recorded success resets the failure count to zero.
C8_OpensAtThreshold ==
    /\ cb.state = StateClosed => consec < cfg.FailureThreshold
    /\ (cbOp = "RecordFailure" /\ cbPrev.state = StateClosed) =>
          /\ consec < cfg.FailureThreshold => cb.state = StateClosed
          /\ consec = cfg.FailureThreshold => cb.state = StateOpen
          /\ cb.state = StateOpen => consec = cfg.FailureThreshold
    /\ (cbOp = "AllowRequest" /\ cbPrev.state = StateClosed) =>
          cbRet = TRUE /\ cb.state = StateClosed
    /\ cbOp = "RecordSuccess" => cb.failures = 0

\* C8 witness: the n-th consecutive failure (n > 1) has just opened a breaker
\* that was closed.
C8_Witness ==
    /\ cbOp = "RecordFailure"
    /\ cbPrev.state = StateClosed
    /\ cb.state = StateOpen
    /\ cfg.FailureThreshold > 1
    /\ consec = cfg.FailureThreshold

\* C9 (as claimed): an AllowRequest on an open breaker returns true exactly
\* when more than ResetTimeout has passed since the breaker opened, and then
\* moves it to half-open.
C9_SinceOpened ==
    (cbOp = "AllowRequest" /\ cbPrev.state = StateOpen) =>
        /\ cbRet = (cbAt - openedAt > cfg.ResetTimeout)
        /\ cb.state = IF cbRet THEN StateHalfOpen ELSE StateOpen

\* C9 (amended): an AllowRequest on an open breaker returns true exactly when
\* more than ResetTimeout has passed since the most recent recorded failure
\* (which is the opening failure when none was recorded while open); it then
\* moves the breaker to half-open with successes = 0, and otherwise returns
\* false and leaves the breaker open.
C9_SinceLastFailure ==
    (cbOp = "AllowRequest" /\ cbPrev.state = StateOpen) =>
        /\ cbRet = (cbAt - cbPrev.lastFailureTime > cfg.ResetTimeout)
        /\ cbRet => cb.state = StateHalfOpen /\ cb.successes = 0
        /\ ~cbRet => cb = cbPrev

\* C9 witness: an open breaker has just admitted a request after the reset
\* timeout and is half-open.
C9_Witness ==
    /\ cbOp = "AllowRequest"
    /\ cbPrev.state = StateOpen
    /\ cbRet = TRUE
    /\ cb.state = StateHalfOpen
    /\ cbAt - cbPrev.lastFailureTime > cfg.ResetTimeout

\* C10: in half-open with HalfOpenMaxAttempts = 1, a recorded success closes
\* the breaker with the failure count at zero; in half-open a recorded
\* failure reopens it.
C10_HalfOpenOutcome ==
    /\ (cbOp = "RecordSuccess" /\ cbPrev.state = StateHalfOpen
          /\ cfg.HalfOpenMaxAttempts = 1) =>
          cb.state = StateClosed /\ cb.failures = 0
    /\ (cbOp = "RecordFailure" /\ cbPrev.state = StateHalfOpen) =>
          cb.state = StateOpen /\ cb.lastFailureTime = cbAt

\* C10 witness: a success recorded in half-open (after failures) has closed
\* the breaker.
C10_Witness ==
    /\ cbOp = "RecordSuccess"
    /\ cbPrev.state = StateHalfOpen
    /\ cbPrev.failures > 0
    /\ cfg.HalfOpenMaxAttempts = 1
    /\ cb.state = StateClosed

(***************************************************************************)
(* Claims about the webhook deliverer.                                     *)
(***************************************************************************)
\* The dead letters persisted for the current event.
DeadLettersOf(ev) == {i \in DOMAIN deadLetters : deadLetters[i].EventID = ev}

\* The delivery attempts recorded for the current event, in order.
AttemptsOf(ev) == SelectSeq(deliveryAttempts, LAMBDA r : r.EventID = ev)

\* C11: a delivery that has come to rest after a failed attempt (its context
\* never cancelled) has made max-retries attempts, and exactly one dead letter
\* exists for its event, replayable and carrying the whole envelope as JSON.
C11_FailedDeliveryDeadLettered ==
    (delivery.pc \in {"dead", "dropped"} /\ ~ctxDone) =>
        /\ delivery.attempt = dconf.MaxRetries
        /\ Cardinality(DeadLettersOf(delivery.event)) = 1
        /\ \A i \in DeadLettersOf(delivery.event) :
              /\ deadLetters[i].Replayable
              /\ deadLetters[i].Payload = Marshal(Envelope(delivery.event))
              /\ deadLetters[i].Attempts = dconf.MaxRetries

\* The statuses of the attempts recorded for an event, in order.
StatusesOf(ev) ==
    [i \in 1..Len(AttemptsOf(ev)) |-> AttemptsOf(ev)[i].Status]

\* C12: with max-retries 3, a breaker that tolerates two failures and an
\* endpoint answering 500, 500, 200, a delivery at rest (context never
\* cancelled) has recorded failed, failed, success and no dead letter.
C12_ThirdAttemptSucceeds ==
    (/\ script = "500 500 200"
     /\ dconf.MaxRetries = 3
     /\ dconf.CBFailThreshold > 2
     /\ dconf.urlValid
     /\ ~ctxDone
     /\ delivery.pc \notin {"none", "backoff"}) =>
        /\ StatusesOf(delivery.event) = <<"failed", "failed", "success">>
        /\ DeadLettersOf(delivery.event) = {}

\* What handleFailure leaves behind for a failure at the attempt whOp names:
\* at max-retries a dead letter carrying that attempt count (stored unless the
\* context is cancelled), before max-retries a retry after the backoff (or
\* the refused pool submission), the attempt counted in either case.
FailurePath ==
    /\ delivery.attempt = whOp.attempt
    /\ IF whOp.attempt >= dconf.MaxRetries
       THEN /\ whOp.op = "dead-letter"
            /\ delivery.pc = "dead"
            /\ ~ctxDone =>
                 \E i \in DeadLettersOf(delivery.event) :
                    /\ deadLetters[i].Attempts = whOp.attempt
                    /\ deadLetters[i].Replayable
       ELSE /\ whOp.op \in {"retry", "dropped"}
            /\ whOp.op = "retry" =>
                 /\ delivery.pc = "backoff"
                 /\ delivery.wake <= clock + Backoff(dconf, whOp.attempt)
            /\ DeadLettersOf(delivery.event) = {}

\* C13: a delivery the breaker rejected is handled as a failed attempt: the
\* attempt is counted against max-retries and the outcome is the one an HTTP
\* failure at that attempt has (FailurePath holds for both causes).
C13_RejectionIsFailedAttempt ==
    (whOp.op # "none" /\ whOp.op # "other"
       /\ whOp.cause \in {"circuit open", "http"}) => FailurePath

\* A rejection at the last of several attempts, dead-lettered.
C13_Witness ==
    /\ whOp.op = "dead-letter"
    /\ whOp.cause = "circuit open"
    /\ whOp.attempt >= 2
    /\ ~ctxDone
    /\ \E i \in DeadLettersOf(delivery.event) :
          deadLetters[i].LastError = ErrMsg("circuit open", 0)

(***************************************************************************)
(* Claims about the SFU forwarders.                                        *)
(***************************************************************************)
\* A VP9 packet with layer ids has just been written by the SVC forwarder.
SvcWroteVP9 ==
    /\ fwOp.op = "Write"
    /\ fwOp.kind = "svc"
    /\ ftrack.vp9
    /\ fwOp.pkt.rtpOK /\ fwOp.pkt.vp9OK

\* C14 as stated: a VP9 packet the SVC forwarder writes is within the limits
\* the subscription carries at the time of the write (those most recently
\* set), when both limits are non-negative.
C14_WithinLimitsAtWrite ==
    (SvcWroteVP9 /\ fsub.maxSpatialLayer >= 0 /\ fsub.maxTemporalLayer >= 0) =>
        /\ fwOp.pkt.SID <= fsub.maxSpatialLayer
        /\ fwOp.pkt.TID <= fsub.maxTemporalLayer

\* C14 amended: a VP9 packet the SVC forwarder writes is within the limits
\* the forwarder copied from the subscription after reading that packet,
\* when both are non-negative.
C14_WithinLimitsRead ==
    (SvcWroteVP9 /\ fwOp.maxSpatial >= 0 /\ fwOp.maxTemporal >= 0) =>
        /\ fwOp.pkt.SID <= fwOp.maxSpatial
        /\ fwOp.pkt.TID <= fwOp.maxTemporal

\* A packet exactly at both limits is written while the subscription still
\* carries the limits the forwarder copied.
C14_Witness ==
    /\ SvcWroteVP9
    /\ fwOp.maxSpatial = 1 /\ fwOp.maxTemporal = 0
    /\ fwOp.pkt.SID = 1 /\ fwOp.pkt.TID = 0
    /\ fsub.maxSpatialLayer = 1 /\ fsub.maxTemporalLayer = 0

\* The packet just written by the simulcast forwarder came from the layer
\* the quality q selects among the layers L: the layer named "q", "h", "f"
\* for low, medium, high, or any layer of L when L has no such layer.
FromLayerOf(q, L) ==
    LET rid == CASE q = QualityLow -> "q"
                 [] q = QualityMedium -> "h"
                 [] q = QualityHigh -> "f"
    IN IF rid \in L THEN fwOp.layer = rid ELSE fwOp.layer \in L

\* C15 as stated: a packet the simulcast forwarder writes was read from the
\* layer of the current-quality the subscription carries at the time of the
\* write (the one most recently set), or from another layer when the track
\* had no such layer when the forwarder looked it up.
C15_LayerOfQualityAtWrite ==
    (fwOp.op = "Write" /\ fwOp.kind = "simulcast") =>
        FromLayerOf(fsub.currentQuality, fwOp.layers)

\* C15 amended: a packet the simulcast forwarder writes was read from the
\* layer of the current-quality the forwarder copied from the subscription
\* before reading it, or from another layer when the track had no such layer
\* at the lookup.
C15_LayerOfQualityRead ==
    (fwOp.op = "Write" /\ fwOp.kind = "simulcast") =>
        FromLayerOf(fwOp.quality, fwOp.layers)

\* After an earlier quality change the forwarder writes a packet of the
\* medium layer, which the subscription still asks for.
C15_Witness ==
    /\ fwOp.op = "Write" /\ fwOp.kind = "simulcast"
    /\ fwd.pliSent
    /\ fwOp.quality = QualityMedium /\ fwOp.layer = "h"
    /\ fsub.currentQuality = QualityMedium
    /\ ftrack.layers = RIDs

(***************************************************************************)
(* Claims about dialog sessions and the engine.                            *)
(***************************************************************************)

\* The newest record of the session's history.
LastRecord == session.History[Len(session.History)]

\* C18: when RunDialog has read no event and the timeout of a state with a
\* timeout_next fires, the session is in timeout_next and the newest record
\* of its history is that transition with trigger "timeout".
C18_TimeoutTrigger ==
    (engOp.op = "timeout" /\ engOp.to # "" /\ ~eng.received)
        => /\ session.CurrentState = engOp.to
           /\ session.History # <<>>
           /\ LastRecord = StateRecord(engOp.from, engOp.to, "timeout")

\* C20: RecordTransition leaves the session in the target state with the new
\* record as the newest of its history; below the cap the history is the old
\* one with that record appended, and at the cap (1000) it is the old one
\* without its cap/10 oldest records, with that record appended.
C20_RecordTransitionHistory ==
    sessOp.op = "RecordTransition" =>
        LET before == sessOp.before
            cap == before.maxHistory
            record == StateRecord(before.CurrentState, sessOp.to, sessOp.trigger)
        IN /\ session.CurrentState = sessOp.to
           /\ LastRecord = record
           /\ Len(before.History) < cap =>
                 /\ Len(session.History) = Len(before.History) + 1
                 /\ session.History = Append(before.History, record)
           /\ Len(before.History) >= cap =>
                 /\ Len(session.History) = Len(before.History) - cap \div 10 + 1
                 /\ session.History =
                       Append(SubSeq(before.History, cap \div 10 + 1,
                                     Len(before.History)), record)

\* C20 happens: a transition was recorded on a session whose history held
\* 1000 records, and 901 are left, the oldest being the 101st of before.
C20_Witness ==
    /\ sessOp.op = "RecordTransition"
    /\ Len(sessOp.before.History) = DefaultMaxHistory
    /\ sessOp.before.maxHistory = DefaultMaxHistory
    /\ Len(session.History) = 901
    /\ session.History[1] = sessOp.before.History[101]
    /\ session.CurrentState = "goodbye"

(***************************************************************************)
(* Claims about dialog definitions.                                        *)
(***************************************************************************)

\* The text without its leading and trailing white space, said without
\* scanning: the stretch between the first and the last letter that is not
\* white space.
Inner(text) ==
    LET solid == {i \in 1..Len(text) : text[i] \notin WhiteSpace}
    IN IF solid = {} THEN <<>>
       ELSE SubSeq(text, CHOOSE i \in solid : \A j \in solid : i <= j,
                         CHOOSE i \in solid : \A j \in solid : i >= j)

\* The condition failed to render.
FailsToRender(t, last) == t.Condition # "" /\ renderTemplate(t.Condition, SessionWith(last)).err

\* The transition is for the event and its condition is empty or renders,
\* trimmed, to a non-empty text other than false and <no value>.
Qualifies(t, event, last) ==
    /\ t.Event = event
    /\ \/ t.Condition = ""
       \/ /\ ~FailsToRender(t, last)
          /\ Inner(renderTemplate(t.Condition, SessionWith(last)).text)
                \notin {<<>>, TextFalse, TextNoValue}

QualifyingIn(args) ==
    {i \in 1..Len(args.ts) : Qualifies(args.ts[i], args.event, args.last)}

FailingIn(args) ==
    {i \in 1..Len(args.ts) :
        args.ts[i].Event = args.event /\ FailsToRender(args.ts[i], args.last)}

FirstOf(indices) == CHOOSE i \in indices : \A j \in indices : i <= j

WellFormed(d) ==
    /\ d.InitialState # ""
    /\ d.InitialState \in DOMAIN d.States
    /\ \A name \in DOMAIN d.States :
          /\ \A i \in 1..Len(d.States[name].Transitions) :
                d.States[name].Transitions[i].Target \in DOMAIN d.States
          /\ d.States[name].TimeoutNext # "" =>
                d.States[name].TimeoutNext \in DOMAIN d.States

\* The dialog files of the directory that do not declare a well-formed
\* dialog.
Rejectable ==
    {name \in DOMAIN files :
        /\ Ext(name) \in {".yaml", ".yml"}
        /\ ~files[name].parses \/ ~WellFormed(files[name].d)}

\* C22: every dialog the loader serves has an initial_state that names one of
\* its states, transition targets that all name states and timeout_next
\* values that, when set, name states; and a load of a directory holding any
\* other dialog returns an error.
C22_OnlyWellFormedServed ==
    /\ \A name \in DOMAIN dialogs : WellFormed(dialogs[name])
    /\ (fsmOp.op = "LoadAll" /\ Rejectable # {}) => fsmOp.err

\* C22 happens: a dialog file was rewritten with a timeout_next that names no
\* state; the reload returned an error and the dialog is not served, while
\* the dialogs loaded before still are.
C22_Witness ==
    /\ fsmOp.op = "LoadAll" /\ fsmOp.err /\ fsmOp.writes = 1
    /\ "f1.yaml" \in DOMAIN files
    /\ files["f1.yaml"].parses
    /\ files["f1.yaml"].d.InitialState = "a"
    /\ files["f1.yaml"].d.States = [a |-> StateOf("a", "b")]
    /\ "f1.yaml" \in DOMAIN dialogs
    /\ dialogs["f1.yaml"].States = [a |-> StateOf("a", "")]

(***************************************************************************)
(* Claims about the event publisher and dead-letter replay.                *)
(***************************************************************************)

\* The envelopes the queue manager was handed.
Published == {published[i] : i \in 1..Len(published)}

\* The envelope the deliverer stored in the dead letter.
StoredIn(row) == CHOOSE env \in OriginalEnvelopes : MarshalEnvelope(env) = row.Payload

\* C26: a replay that succeeded published an envelope with the type, the
\* session id and the data of the envelope stored in the dead letter, and the
\* dead letter is no longer replayable; a replay whose re-emit returned an
\* error published nothing and left the dead letter as it was.
C26_ReplayEmitsThenMarks ==
    /\ (evOp.op = "Replay" /\ evOp.res = "ok") =>
          /\ evOp.envelope \in Published
          /\ evOp.envelope.Type = StoredIn(evOp.before).Type
          /\ evOp.envelope.SessionID = StoredIn(evOp.before).SessionID
          /\ evOp.envelope.Data = StoredIn(evOp.before).Data
          /\ ~letters[evOp.dlid].Replayable
    /\ (evOp.op = "Replay" /\ evOp.res = "re-publish failed") =>
          /\ evOp.envelope \notin Published
          /\ letters[evOp.dlid] = evOp.before

\* C26 happens: a replayable dead letter of session s1 was replayed by the
\* second Emit of the publisher, and is no longer replayable.
C26_Witness ==
    /\ evOp.op = "Replay" /\ evOp.res = "ok"
    /\ evOp.before.Replayable
    /\ ~letters[evOp.dlid].Replayable
    /\ evOp.envelope.ID = 2
    /\ evOp.envelope.SessionID = "s1"
    /\ StoredIn(evOp.before).ID = 0

\* The subscriber an Emit has just dealt with in this step.
JustServed == emit.todo \ emit'.todo

\* C28: an Emit that is fanning out can always take its next step, for
\* whichever subscriber comes next and then for the queue publish, whatever
\* the subscribers' channels hold; and each step of the fan-out appends the
\* envelope to the subscriber's channel if it has room and leaves the channel
\* alone if it is full, touching no other channel.
C28_EmitNeverBlocks ==
    /\ [](emit.pc = "fanout" =>
            /\ \A id \in emit.todo : ENABLED EmitSend(id)
            /\ emit.todo = {} => ENABLED EmitPublish(TRUE))
    /\ [][(emit.pc = "fanout" /\ emit'.pc = "fanout" /\ emit'.todo # emit.todo) =>
            \A id \in SubscriberIds :
                subscribers'[id].buf =
                    IF id \in JustServed /\ Len(subscribers[id].buf) < subscribers[id].cap
                    THEN Append(subscribers[id].buf, emit.envelope)
                    ELSE subscribers[id].buf]_vars

\* C28 happens: an Emit returned after placing the envelope on one
\* subscriber's channel and dropping it for another, whose channel was full.
C28_Witness ==
    /\ evOp.op = "Emit" /\ ~evOp.err
    /\ evOp.sent # {} /\ evOp.dropped # {}
    /\ \A id \in evOp.dropped :
          subscribers[id].open /\ Len(subscribers[id].buf) = subscribers[id].cap
(***************************************************************************)
(* Claims about the orchestration pipeline                                 *)
(***************************************************************************)
EndDialogRequests ==
    {i \in 1..Len(dialogRPCs) : dialogRPCs[i].rpc = "EndDialog"}

\* C27: a run in which StartDialog succeeded has sent exactly one EndDialog
\* request, for its own session id, once it has returned, whichever way it
\* returned (terminal result, transcription error or EOF, audio-pipe exit,
\* refused pipe submission); it has sent none before it returns, and a run
\* in which StartDialog did not succeed sends none.
C27_EndDialogOnceOnExit ==
    /\ (orch.pc = "returned" /\ orch.started) =>
          /\ Cardinality(EndDialogRequests) = 1
          /\ dialogRPCs[Len(dialogRPCs)] =
                DialogRPC("EndDialog", SessionIDOf(orch.roomID, orch.peerID))
          /\ orch.exit \in {"terminal result", "transcription error",
                            "transcription EOF", "audio-pipe exit",
                            "refused pipe submission"}
    /\ (orch.pc # "returned" \/ ~orch.started) => EndDialogRequests = {}

\* The run returned because the audio pipe had exited, after StartDialog
\* succeeded and a final transcript had been forwarded.
C27_Witness ==
    /\ orch.pc = "returned"
    /\ orch.started
    /\ orch.exit = "audio-pipe exit"
    /\ orch.received > 0
    /\ pipe.pc = "done"

(***************************************************************************)
(* Claims about SendEvent and the session loop against EndDialog           *)
(***************************************************************************)
\* C29: no SendEvent call sends on an input channel that EndDialog has
\* closed: a call that looked the session up before EndDialog removed it
\* returns a result or an error, and never ends in the panic of a send on a
\* closed channel.
C29_NoSendOnClosedChannel ==
    ~(dlgOp.op = "SendEvent" /\ dlgOp.res = "panic")

\* C30: once the context of a session is cancelled (by EndDialog or by the
\* reaper), its loop eventually exits and signals done, whatever the result
\* channel holds and whether or not a SendEvent call is receiving from it.
C30_CancelledLoopExits ==
    \A h \in 1..MaxSessionObjs :
        (h \in DOMAIN sess /\ sess[h].cancelled)
            ~> (h \in DOMAIN sess /\ sess[h].loop = "done")

\* The kind of event a SendEvent request with event type ev puts on an
\* input channel.
EventKind(ev) == IF ev = "speech" THEN "speech" ELSE "dtmf"

\* C31: the response of a SendEvent call that sent a speech or dtmf event
\* carries the outcome of that event: the loop has evaluated the event, and
\* the response's currentState, terminal flag and actions are those of the
\* transition it took (or the unchanged state, not terminal, no actions,
\* when none matched), whatever timeouts, terminal states and other calls
\* came in between.
C31_OwnOutcome ==
    (/\ dlgOp.op = "SendEvent" /\ dlgOp.res = "ok"
     /\ dlgOp.ev \in {"speech", "dtmf"}) =>
        /\ dlgOp.handled.done
        /\ LET s == dlgOp.handled.from
               t == dlgOp.handled.to
           IN IF t = ""
              THEN /\ dlgOp.result.newState = s
                   /\ ~dlgOp.result.terminal
                   /\ dlgOp.result.actions = <<>>
              ELSE /\ dlgOp.result.newState = t
                   /\ dlgOp.result.terminal = GetState(t).Terminal
                   /\ dlgOp.result.actions =
                         TransitionActions(GetState(s), EventKind(dlgOp.ev))
                            \o GetState(t).OnEnter

(***************************************************************************)
(* Further claims about the webhook deliverer and its breaker              *)
(***************************************************************************)
\* An attempt recorded as success exists for the event.
SucceededFor(ev) ==
    \E i \in DOMAIN deliveryAttempts :
        deliveryAttempts[i].EventID = ev /\ deliveryAttempts[i].Status = "success"

\* C32: a delivery to an endpoint whose URL passes validation that has come
\* to rest (no attempt and no retry of it is still to be made) has exactly
\* one of two outcomes, an attempt recorded as success or a persisted dead
\* letter, also when the pool refused a retry and when the context was
\* cancelled during the backoff.
C32_DeliveryEndsInOutcome ==
    (dconf.urlValid
       /\ delivery.pc \in {"delivered", "dead", "dropped", "cancelled"}) =>
        /\ SucceededFor(delivery.event) \/ DeadLettersOf(delivery.event) # {}
        /\ ~(SucceededFor(delivery.event) /\ DeadLettersOf(delivery.event) # {})
        /\ Cardinality(DeadLettersOf(delivery.event)) <= 1

\* C33: a breaker that is open leaves that state only by an AllowRequest that
\* moves it to half-open; the outcome of a request admitted before the
\* breaker opened, recorded while it is open, leaves it open.
C33_OpenLeftByAllowRequest ==
    (cbPrev.state = StateOpen /\ cb.state # StateOpen) =>
        cbOp = "AllowRequest" /\ cb.state = StateHalfOpen

(***************************************************************************)
(* Further claims about the SFU                                            *)
(***************************************************************************)
\* C34: on a simulcast or SVC track with several subscribers, a packet read
\* from a layer, by the layer reader or by the forwarder of any
\* subscription, has been written to every subscription that was not paused,
\* was selecting that layer and whose SVC limits admit it.
C34_PacketReachesAllSubscribers ==
    fanOp.op = "Read" => \A s \in fanOp.due : fanOp.pkt.n \in fanSubs[s].written

\* Peer object o has left the room through a RemovePeer or Close that has
\* returned: it is closed, the room does not hold it, and no call is still
\* about to close it.
Gone(o) ==
    /\ peers[o].closed
    /\ room.peers[peers[o].id] # o
    /\ \A c \in closing : c.peer # o

\* C35: once RemovePeer(p) has returned and no Subscribe call is in flight,
\* no publisher track registered in the room holds a subscription whose
\* subscriber is p.
C35_NoSubscriptionOfRemovedPeer ==
    subCall.pc = "idle" =>
        \A o \in DOMAIN peers :
            Gone(o) =>
                \A t \in Registered(room) :
                    LET s == tracks[t].subscribers[peers[o].id]
                    IN s = 0 \/ subs[s].subscriber # o

\* Whoever owns peer o has closed it: Peer.Close, which Room.RemovePeer,
\* Room.Close and through it SFU.Close call, has called p.cancel().
OwnerClosed(o) == joinPeers[o].cancelled

\* C36: the context of a peer is done only when the peer was closed by its
\* owner, and the context of a publisher track, on which its layer reader
\* exits, is done only when the track or its publisher was closed; the
\* JoinRoom call that created the peer returning or being cancelled ends
\* none of them.
C36_ContextEndsWithOwner ==
    /\ \A o \in DOMAIN joinPeers : PeerCtxDone(o) => OwnerClosed(o)
    /\ \A t \in DOMAIN joinTracks :
          (TrackCtxDone(t) \/ joinTracks[t].reader = "exited") =>
              (joinTracks[t].cancelled \/ OwnerClosed(joinTracks[t].publisher))

\* Peer object o was added to the room and nobody has closed it or is about
\* to: it is open, and no RemovePeer or Close holds it for its peer.Close().
LivePeer(o) ==
    /\ ~peers[o].closed
    /\ \A c \in closing : c.peer # o

\* C37: no two distinct live peers that were added to the room carry the
\* same id; an AddPeer with an id already present does not replace the peer
\* stored under it and leave that peer open.
C37_PeerIdsUnique ==
    \A o1, o2 \in DOMAIN peers :
        (LivePeer(o1) /\ LivePeer(o2) /\ peers[o1].id = peers[o2].id) => o1 = o2

\* Room.Close has returned: the room is marked closed and none of the
\* peer.Close() calls it makes after releasing the lock is outstanding.
RoomCloseReturned ==
    /\ room.closed
    /\ \A c \in closing : c.rm

\* C39: once Room.Close has returned the room holds no peer, no publisher
\* track and no audio tap, whatever AddPeer, track callback or AddAudioTap
\* comes later.
C39_ClosedRoomStaysEmpty ==
    RoomCloseReturned =>
        /\ PeerCount(room) = 0
        /\ Registered(room) = {}
        /\ room.audioTaps = {}

\* C40: a replay request, on the REST path (webhook API) or the RPC path
\* (integration service), re-emits only a dead letter that is still
\* replayable: one marked replayable=false is never handed to Emit again.
C40_MarkedNeverReplayed ==
    replay.pc # "idle" => replay.before.Replayable

\* C38: whenever a goroutine takes a mutex, every mutex it holds comes
\* earlier in the order SFU, Room, PublisherTrack, Peer: none of them is the
\* mutex of a child of the object whose mutex is taken.
C38_LockOrder ==
    lockOp.op = "acquire" => \A h \in lockOp.held : Rank(h) < Rank(lockOp.mu)

\* C38 happens: the connection-state callback, having released the peer's
\* mutex, is inside RemovePeer and takes the peer's mutex for RemoveDownTrack
\* while it holds the room's, and another goroutine is inside SFU.Stats
\* holding the SFU's mutex.
C38_Witness ==
    /\ lockOp.op = "acquire"
    /\ lockOp.path = "StateChangeRemoves"
    /\ lockOp.mu = "peer"
    /\ lockOp.held = {"room"}
    /\ \E g \in DOMAIN lockThreads :
          lockThreads[g].path = "Stats" /\ "sfu" \in HeldSet(g)

====
